---------------------------- MODULE Spec2Model ----------------------------
(***************************************************************************)
(* Model of the dependency graph builder of the Stellaris data parser      *)
(* (package tree: NewTechTree, calculateLevels, organizeByAttributes and   *)
(* the read-only queries of TechTree) and of its configuration-language    *)
(* parser (package parser: TechParser).                                    *)
(*                                                                         *)
(* A Go map is ranged over in an unspecified order; every `for .. range`   *)
(* over a map whose order can be observed afterwards is modelled one       *)
(* iteration per step, the key of the iteration chosen nondeterministically*)
(* among the keys not yet visited (variable todo).                         *)
(***************************************************************************)
EXTENDS Integers, Sequences, FiniteSets, TLC

VARIABLES
    technologies,   \* the argument of NewTechTree: key -> Technology
    pc,             \* position inside NewTechTree
    todo,           \* keys the current range loop has not visited yet
    nodes,          \* tree.nodes: key -> TechNode (node pointers are keys)
    rootNodes,      \* tree.rootNodes
    maxLevel,       \* tree.maxLevel
    queue,          \* the local work queue of calculateLevels
    byArea,         \* tree.byArea
    byTier,         \* tree.byTier
    byCategory,     \* tree.byCategory
    finalized,      \* history: nodes whose Level was assigned by calculateLevels
    call,           \* the parser function under evaluation and its arguments
    ret,            \* what that function returned
    ptechs,         \* p.technologies of the TechParser
    entries,        \* the files filepath.Walk visits, in walk order; the calls of
                    \* parseBlock under way when its loop is run step by step
    cursor,         \* number of entries the walk has visited; number of steps
                    \* parseBlock has taken when its loop is run step by step
    result,         \* what ParseDirectory returned
    lastFile,       \* the last ParseFile call: its file and what it returned
    warnings        \* number of warnings ParseDirectory printed

\* the state of the TechParser and of the parser function under evaluation
pvars == <<call, ret, ptechs, entries, cursor, result, lastFile, warnings>>

vars == <<technologies, pc, todo, nodes, rootNodes, maxLevel, queue,
          byArea, byTier, byCategory, finalized, pvars>>

\* no parser function is under evaluation, no value was returned
None == [type |-> "none"]

\* the parser is not in use while a tree is built
ParserIdle ==
    /\ call = None
    /\ ret = None
    /\ ptechs = <<>>
    /\ entries = <<>>
    /\ cursor = 0
    /\ result = "idle"
    /\ lastFile = None
    /\ warnings = 0

---------------------------------------------------------------------------
(* Bounds of the generated inputs *)

\* longest generated prerequisite list
MaxPrereqs == 2

\* most prerequisite entries in one generated technology set
MaxEdges == 4

\* keys of the generated technology sets
Keys == <<"tech_a", "tech_b", "tech_c">>

\* a prerequisite key that no technology set defines
Nonexistent == "tech_nonexistent"

Range(s) == {s[i] : i \in DOMAIN s}

Prefix(s, n) == {s[i] : i \in 1..n}

SeqsUpTo(S, n) == UNION {[1..k -> S] : k \in 0..n}

RECURSIVE SumLen(_, _)
SumLen(f, D) ==
    IF D = {} THEN 0
    ELSE LET k == CHOOSE x \in D : TRUE
         IN Len(f[k]) + SumLen(f, D \ {k})

---------------------------------------------------------------------------
(* A Go string is the sequence of its bytes, each a number in 0..255; a     *)
(* text is written as the tuple of its ASCII characters and Ascii gives    *)
(* its bytes.  The grave accent (96) has no notation in a module.          *)

\* the characters 9 to 13, 32 to 95 and 97 to 126
AsciiControl == <<"\t", "\n", "", "\f", "\r">>

AsciiLow ==
    <<" ", "!", "\"", "#", "$", "%", "&", "'", "(", ")", "*", "+", ",",
      "-", ".", "/", "0", "1", "2", "3", "4", "5", "6", "7", "8", "9", ":",
      ";", "<", "=", ">", "?", "@", "A", "B", "C", "D", "E", "F", "G", "H",
      "I", "J", "K", "L", "M", "N", "O", "P", "Q", "R", "S", "T", "U", "V",
      "W", "X", "Y", "Z", "[", "\\", "]", "^", "_">>

AsciiHigh ==
    <<"a", "b", "c", "d", "e", "f", "g", "h", "i", "j", "k", "l", "m", "n",
      "o", "p", "q", "r", "s", "t", "u", "v", "w", "x", "y", "z", "{", "|",
      "}", "~">>

ByteOf ==
    [c \in Range(AsciiControl) \cup Range(AsciiLow) \cup Range(AsciiHigh) |->
        IF c \in Range(AsciiControl)
        THEN 8 + (CHOOSE i \in DOMAIN AsciiControl : AsciiControl[i] = c)
        ELSE IF c \in Range(AsciiLow)
        THEN 31 + (CHOOSE i \in DOMAIN AsciiLow : AsciiLow[i] = c)
        ELSE 96 + (CHOOSE i \in DOMAIN AsciiHigh : AsciiHigh[i] = c)]

Byte(c) == ByteOf[c]

Bytes(S) == {ByteOf[c] : c \in S}

Ascii(s) == [i \in DOMAIN s |-> ByteOf[s[i]]]

---------------------------------------------------------------------------
(* models.Technology, restricted to the fields the tree reads *)

Technology(key, area, tier, category, prerequisites) ==
    [Key |-> key, Area |-> area, Tier |-> tier, Category |-> category,
     Prerequisites |-> prerequisites]

\* the area and category names of the inputs, spelled as Go strings
Physics == Ascii(<<"p", "h", "y", "s", "i", "c", "s">>)
Society == Ascii(<<"s", "o", "c", "i", "e", "t", "y">>)
Engineering == Ascii(<<"e", "n", "g", "i", "n", "e", "e", "r", "i", "n", "g">>)
Computing == Ascii(<<"c", "o", "m", "p", "u", "t", "i", "n", "g">>)
Materials == Ascii(<<"m", "a", "t", "e", "r", "i", "a", "l", "s">>)
Biology == Ascii(<<"b", "i", "o", "l", "o", "g", "y">>)
Particles == Ascii(<<"p", "a", "r", "t", "i", "c", "l", "e", "s">>)
Voidcraft == Ascii(<<"v", "o", "i", "d", "c", "r", "a", "f", "t">>)

\* the attribute profiles the generated technologies draw from
Profiles ==
    { [Area |-> Physics, Tier |-> 0, Category |-> <<Computing>>],
      [Area |-> Physics, Tier |-> 1, Category |-> <<Computing, Materials>>],
      [Area |-> Society, Tier |-> 0, Category |-> <<Biology>>],
      [Area |-> <<>>,        Tier |-> 1, Category |-> <<>>],
      [Area |-> Society, Tier |-> 2, Category |-> <<Materials, Materials>>] }

\* profile of a generated technology when the prerequisites are what varies
DefaultProfile(key) ==
    CASE key = "tech_a" -> [Area |-> Physics, Tier |-> 0, Category |-> <<Computing>>]
      [] key = "tech_b" -> [Area |-> Physics, Tier |-> 1, Category |-> <<Computing, Materials>>]
      [] OTHER          -> [Area |-> <<>>,        Tier |-> 1, Category |-> <<>>]

\* createTestTechnologies of the tree tests
TestTechnologies ==
    ("tech_root_1" :> Technology("tech_root_1", Physics, 0, <<Computing>>, <<>>))
 @@ ("tech_root_2" :> Technology("tech_root_2", Society, 0, <<Biology>>, <<>>))
 @@ ("tech_level_1" :> Technology("tech_level_1", Physics, 1, <<Computing>>,
                                  <<"tech_root_1">>))
 @@ ("tech_level_2" :> Technology("tech_level_2", Physics, 2,
                                  <<Computing, Materials>>, <<"tech_level_1">>))
 @@ ("tech_multi_prereq" :> Technology("tech_multi_prereq", Engineering, 2,
                                  <<Voidcraft>>, <<"tech_level_1", "tech_root_2">>))
 @@ ("tech_rare" :> Technology("tech_rare", Physics, 3, <<Particles>>,
                                  <<"tech_level_2">>))
 @@ ("tech_dangerous" :> Technology("tech_dangerous", Physics, 4, <<Particles>>,
                                  <<"tech_rare">>))

\* the technologies of TestComplexDependencyChain without tech_e
Diamond ==
    ("tech_a" :> Technology("tech_a", <<>>, 0, <<>>, <<>>))
 @@ ("tech_b" :> Technology("tech_b", <<>>, 0, <<>>, <<"tech_a">>))
 @@ ("tech_c" :> Technology("tech_c", <<>>, 0, <<>>, <<"tech_a">>))
 @@ ("tech_d" :> Technology("tech_d", <<>>, 0, <<>>, <<"tech_b", "tech_c">>))

\* the technologies of TestComplexDependencyChain
DiamondE ==
    Diamond @@ ("tech_e" :> Technology("tech_e", <<>>, 0, <<>>, <<"tech_d">>))

\* the technology set of TestUnknownPrerequisite
UnknownPrereq ==
    ("tech_with_missing_prereq" :>
        Technology("tech_with_missing_prereq", Physics, 1, <<>>, <<"tech_nonexistent">>))

\* technology sets over the first k keys whose prerequisite lists vary
GraphInputs ==
    UNION { { [key \in Prefix(Keys, k) |->
                 Technology(key, DefaultProfile(key).Area, DefaultProfile(key).Tier,
                            DefaultProfile(key).Category, p[key])] :
              p \in { q \in [Prefix(Keys, k) ->
                               SeqsUpTo(Range(Keys) \cup {Nonexistent}, MaxPrereqs)] :
                      SumLen(q, Prefix(Keys, k)) <= MaxEdges } } :
            k \in 0..Len(Keys) }

\* technology sets without prerequisites whose attributes vary
AttrInputs ==
    UNION { { [key \in Prefix(Keys, k) |->
                 Technology(key, a[key].Area, a[key].Tier, a[key].Category, <<>>)] :
              a \in [Prefix(Keys, k) -> Profiles] } :
            k \in 1..Len(Keys) }

Fixtures == {TestTechnologies, Diamond, DiamondE, UnknownPrereq}

---------------------------------------------------------------------------
(* tree.TechNode and the state after the TechTree literal of NewTechTree *)

TechNode == [Dependencies |-> <<>>, Dependents |-> <<>>, Level |-> 0, Visited |-> FALSE]

EmptyMap == [k \in {} |-> <<>>]

Init ==
    /\ technologies \in GraphInputs \cup AttrInputs \cup Fixtures
    /\ pc = "create"
    /\ todo = {}
    /\ nodes = EmptyMap
    /\ rootNodes = <<>>
    /\ maxLevel = 0
    /\ queue = <<>>
    /\ byArea = EmptyMap
    /\ byTier = EmptyMap
    /\ byCategory = EmptyMap
    /\ finalized = {}
    /\ ParserIdle

---------------------------------------------------------------------------
(* NewTechTree: node creation *)

CreateNodes ==
    /\ pc = "create"
    /\ nodes' = [key \in DOMAIN technologies |-> TechNode]
    /\ pc' = "wire"
    /\ todo' = DOMAIN technologies
    /\ UNCHANGED <<technologies, rootNodes, maxLevel, queue, byArea, byTier,
                   byCategory, finalized>>
    /\ UNCHANGED pvars

(* NewTechTree: edge wiring, the inner loop over node.Tech.Prerequisites *)

\* edge wiring that stops at the first unknown prerequisite instead of skipping it
RECURSIVE WirePrereqsBreak(_, _, _, _)
WirePrereqsBreak(ns, key, prereqs, i) ==
    IF i > Len(prereqs) THEN ns
    ELSE LET prereqKey == prereqs[i]
         IN IF prereqKey \in DOMAIN ns
            THEN LET n1 == [ns EXCEPT ![key].Dependencies = Append(@, prereqKey)]
                     n2 == [n1 EXCEPT ![prereqKey].Dependents = Append(@, key)]
                 IN WirePrereqsBreak(n2, key, prereqs, i + 1)
            ELSE ns

\* edge wiring that records a dependent only once per prerequisite node
RECURSIVE WirePrereqsDedup(_, _, _, _)
WirePrereqsDedup(ns, key, prereqs, i) ==
    IF i > Len(prereqs) THEN ns
    ELSE LET prereqKey == prereqs[i]
         IN IF prereqKey \in DOMAIN ns
            THEN LET n1 == [ns EXCEPT ![key].Dependencies = Append(@, prereqKey)]
                     n2 == IF key \in Range(n1[prereqKey].Dependents) THEN n1
                           ELSE [n1 EXCEPT ![prereqKey].Dependents = Append(@, key)]
                 IN WirePrereqsDedup(n2, key, prereqs, i + 1)
            ELSE WirePrereqsDedup(ns, key, prereqs, i + 1)

\* edge wiring that wires the first existing prerequisite only
RECURSIVE WirePrereqsFirst(_, _, _, _)
WirePrereqsFirst(ns, key, prereqs, i) ==
    IF i > Len(prereqs) THEN ns
    ELSE LET prereqKey == prereqs[i]
         IN IF prereqKey \in DOMAIN ns
            THEN LET n1 == [ns EXCEPT ![key].Dependencies = Append(@, prereqKey)]
                 IN [n1 EXCEPT ![prereqKey].Dependents = Append(@, key)]
            ELSE WirePrereqsFirst(ns, key, prereqs, i + 1)

RECURSIVE WirePrereqs(_, _, _, _)
WirePrereqs(ns, key, prereqs, i) ==
    IF i > Len(prereqs) THEN ns
    ELSE LET prereqKey == prereqs[i]
         IN IF prereqKey \in DOMAIN ns
            THEN LET n1 == [ns EXCEPT ![key].Dependencies = Append(@, prereqKey)]
                     n2 == [n1 EXCEPT ![prereqKey].Dependents = Append(@, key)]
                 IN WirePrereqs(n2, key, prereqs, i + 1)
            ELSE WirePrereqs(ns, key, prereqs, i + 1)

WireStep ==
    /\ pc = "wire"
    /\ \E key \in todo :
        /\ nodes' = WirePrereqs(nodes, key, technologies[key].Prerequisites, 1)
        /\ todo' = todo \ {key}
    /\ UNCHANGED <<technologies, pc, rootNodes, maxLevel, queue, byArea, byTier,
                   byCategory, finalized>>
    /\ UNCHANGED pvars

WireDone ==
    /\ pc = "wire"
    /\ todo = {}
    /\ pc' = "roots"
    /\ todo' = DOMAIN nodes
    /\ UNCHANGED <<technologies, nodes, rootNodes, maxLevel, queue, byArea, byTier,
                   byCategory, finalized>>
    /\ UNCHANGED pvars

(* NewTechTree: root collection *)

\* a root test that reads the prerequisite list instead of the wired edges
IsRootByPrerequisites(key) == Len(technologies[key].Prerequisites) = 0

\* len(node.Dependencies) == 0
IsRoot(key) == Len(nodes[key].Dependencies) = 0

RootStep ==
    /\ pc = "roots"
    /\ \E key \in todo :
        /\ rootNodes' = IF IsRoot(key) THEN Append(rootNodes, key) ELSE rootNodes
        /\ todo' = todo \ {key}
    /\ UNCHANGED <<technologies, pc, nodes, maxLevel, queue, byArea, byTier,
                   byCategory, finalized>>
    /\ UNCHANGED pvars

---------------------------------------------------------------------------
(* calculateLevels *)

\* the reset loop and the initial queue
BeginLevels ==
    /\ pc = "roots"
    /\ todo = {}
    /\ nodes' = [key \in DOMAIN nodes |->
                    [nodes[key] EXCEPT !.Visited = FALSE, !.Level = 0]]
    /\ queue' = rootNodes
    /\ pc' = "levels"
    /\ UNCHANGED <<technologies, todo, rootNodes, maxLevel, byArea, byTier,
                   byCategory, finalized>>
    /\ UNCHANGED pvars

\* the faulty start, one above the code's, that numbers the roots from 1
InitialMaxDepLevelZero == -1 + 1

\* the value maxDepLevel starts from
InitialMaxDepLevel == -1

\* the loop over node.Dependencies: stops at the first dependency not visited
RECURSIVE ScanDependencies(_, _, _, _)
ScanDependencies(ns, deps, i, maxDepLevel) ==
    IF i > Len(deps)
    THEN [allDepsVisited |-> TRUE, maxDepLevel |-> maxDepLevel]
    ELSE IF ~ns[deps[i]].Visited
         THEN [allDepsVisited |-> FALSE, maxDepLevel |-> maxDepLevel]
         ELSE ScanDependencies(ns, deps, i + 1,
                  IF ns[deps[i]].Level > maxDepLevel THEN ns[deps[i]].Level
                  ELSE maxDepLevel)

\* node.Level = maxDepLevel + 1, roots numbered from 1 instead of 0
AssignLevelFromOne(maxDepLevel) ==
    IF maxDepLevel < 0 THEN 1 ELSE maxDepLevel + 1

\* node.Level = maxDepLevel + 1
AssignLevel(maxDepLevel) == maxDepLevel + 1

\* the running maximum records the level of the dependency, not of the node
UpdateMaxLevelOffByOne(level, max) == IF level - 1 > max THEN level - 1 ELSE max

\* the running maximum after a node got its level
UpdateMaxLevel(level, max) == IF level > max THEN level ELSE max

\* one iteration of `for len(queue) > 0`
LevelStep ==
    /\ pc = "levels"
    /\ Len(queue) > 0
    /\ LET node == Head(queue)
           rest == Tail(queue)
       IN IF nodes[node].Visited
          THEN /\ queue' = rest
               /\ UNCHANGED <<nodes, maxLevel, finalized>>
          ELSE LET marked == [nodes EXCEPT ![node].Visited = TRUE]
                   scan == ScanDependencies(marked, marked[node].Dependencies, 1,
                                            InitialMaxDepLevel)
               IN IF ~scan.allDepsVisited
                  THEN /\ nodes' = marked
                       /\ queue' = Append(rest, node)
                       /\ UNCHANGED <<maxLevel, finalized>>
                  ELSE /\ nodes' = [marked EXCEPT
                                     ![node].Level = AssignLevel(scan.maxDepLevel)]
                       /\ maxLevel' = UpdateMaxLevel(AssignLevel(scan.maxDepLevel),
                                                     maxLevel)
                       /\ queue' = rest \o marked[node].Dependents
                       /\ finalized' = finalized \cup {node}
    /\ UNCHANGED <<technologies, pc, todo, rootNodes, byArea, byTier, byCategory>>
    /\ UNCHANGED pvars

\* the queue is empty: calculateLevels returns
LevelsDone ==
    /\ pc = "levels"
    /\ Len(queue) = 0
    /\ pc' = "organize"
    /\ todo' = DOMAIN nodes
    /\ UNCHANGED <<technologies, nodes, rootNodes, maxLevel, queue, byArea, byTier,
                   byCategory, finalized>>
    /\ UNCHANGED pvars

---------------------------------------------------------------------------
(* organizeByAttributes *)

\* m[k] = []*TechNode{node}: the bucket is overwritten instead of extended
AssignTo(m, k, node) ==
    IF k \in DOMAIN m THEN [m EXCEPT ![k] = <<node>>]
    ELSE m @@ (k :> <<node>>)

\* m[k] = append(m[k], node) on a Go map: a missing key reads as the nil slice
AppendTo(m, k, node) ==
    IF k \in DOMAIN m THEN [m EXCEPT ![k] = Append(@, node)]
    ELSE m @@ (k :> <<node>>)

AddByArea(m, area, node) == IF area # <<>> THEN AppendTo(m, area, node) ELSE m

RECURSIVE AddByCategory(_, _, _, _)
AddByCategory(m, category, i, node) ==
    IF i > Len(category) THEN m
    ELSE AddByCategory(AppendTo(m, category[i], node), category, i + 1, node)

OrganizeStep ==
    /\ pc = "organize"
    /\ \E key \in todo :
        /\ byArea' = AddByArea(byArea, technologies[key].Area, key)
        /\ byTier' = AppendTo(byTier, technologies[key].Tier, key)
        /\ byCategory' = AddByCategory(byCategory, technologies[key].Category, 1, key)
        /\ todo' = todo \ {key}
    /\ UNCHANGED <<technologies, pc, nodes, rootNodes, maxLevel, queue, finalized>>
    /\ UNCHANGED pvars

\* NewTechTree returns the tree
Return ==
    /\ pc = "organize"
    /\ todo = {}
    /\ pc' = "done"
    /\ UNCHANGED <<technologies, todo, nodes, rootNodes, maxLevel, queue, byArea,
                   byTier, byCategory, finalized>>
    /\ UNCHANGED pvars

---------------------------------------------------------------------------
(* the read-only queries *)

GetRootNodes == rootNodes

GetMaxLevel == maxLevel

GetNodesByArea(area) == IF area \in DOMAIN byArea THEN byArea[area] ELSE <<>>

GetNodesByTier(tier) == IF tier \in DOMAIN byTier THEN byTier[tier] ELSE <<>>

\* a < b on Go strings: the first byte where they differ decides, and a
\* proper prefix is the smaller one
StringLess(a, b) ==
    \/ \E i \in DOMAIN a \cap DOMAIN b :
           a[i] < b[i] /\ \A j \in 1..(i - 1) : a[j] = b[j]
    \/ Len(a) < Len(b) /\ \A j \in DOMAIN a : a[j] = b[j]

\* sort.Strings on the keys collected from a map
RECURSIVE SortStrings(_)
SortStrings(S) ==
    IF S = {} THEN <<>>
    ELSE LET least == CHOOSE x \in S : \A y \in S \ {x} : StringLess(x, y)
         IN <<least>> \o SortStrings(S \ {least})

\* the keys of a map sorted in descending order
RECURSIVE SortIntsDescending(_)
SortIntsDescending(S) ==
    IF S = {} THEN <<>>
    ELSE LET greatest == CHOOSE x \in S : \A y \in S : y <= x
         IN <<greatest>> \o SortIntsDescending(S \ {greatest})

\* sort.Ints on the keys collected from a map
RECURSIVE SortInts(_)
SortInts(S) ==
    IF S = {} THEN <<>>
    ELSE LET least == CHOOSE x \in S : \A y \in S : x <= y
         IN <<least>> \o SortInts(S \ {least})

GetAreas == SortStrings(DOMAIN byArea)

GetTiers == SortInts(DOMAIN byTier)

GetCategories == SortStrings(DOMAIN byCategory)

---------------------------------------------------------------------------

Next ==
    \/ CreateNodes
    \/ WireStep
    \/ WireDone
    \/ RootStep
    \/ BeginLevels
    \/ LevelStep
    \/ LevelsDone
    \/ OrganizeStep
    \/ Return

Spec == Init /\ [][Next]_vars

---------------------------------------------------------------------------
(* Vocabulary of the properties *)

Built == pc = "done"

Wired == pc \in {"roots", "levels", "organize", "done"}

Levelled == pc \in {"organize", "done"}

Count(x, s) == Cardinality({i \in DOMAIN s : s[i] = x})

NoDuplicates(s) == \A i, j \in DOMAIN s : s[i] = s[j] => i = j

MaxOf(S) == CHOOSE m \in S : \A x \in S : x <= m

\* the prerequisites of key that the technology set defines
ExistingPrereqs(key) ==
    {p \in Range(technologies[key].Prerequisites) : p \in DOMAIN technologies}

RECURSIVE Ancestors(_)
Ancestors(S) ==
    LET T == S \cup UNION {ExistingPrereqs(k) : k \in S}
    IN IF T = S THEN S ELSE Ancestors(T)

HasCycle == \E k \in DOMAIN technologies : k \in Ancestors(ExistingPrereqs(k))

Acyclic == ~HasCycle

\* the prerequisite list of key without the keys the technology set lacks
KnownPrereqs(key) ==
    SelectSeq(technologies[key].Prerequisites, LAMBDA p : p \in DOMAIN technologies)

\* the level rule of the specification, read on the levels of the tree
LevelRule(n) ==
    nodes[n].Level =
        IF nodes[n].Dependencies = <<>> THEN 0
        ELSE 1 + MaxOf({nodes[d].Level : d \in Range(nodes[n].Dependencies)})

---------------------------------------------------------------------------
(* C1: after NewTechTree on an acyclic technology set every node has level  *)
(* 0 when it has no dependencies and 1 + the maximum level of its           *)
(* dependencies otherwise, whatever the order the maps were iterated in.    *)
C1_LevelRule ==
    (Built /\ Acyclic) => \A n \in DOMAIN nodes : LevelRule(n)

(* C2: on an acyclic technology set, when calculateLevels has returned      *)
(* every node has been finalized (its level was assigned while all its      *)
(* dependencies were finalized); none is skipped.                           *)
C2_AllFinalized ==
    (Levelled /\ Acyclic) => finalized = DOMAIN nodes

(* C3: when the prerequisite graph has a cycle among existing keys,         *)
(* calculateLevels never returns.                                           *)
C3_CycleNeverReturns ==
    HasCycle => ~Levelled

(* C4: after NewTechTree, GetMaxLevel() is the maximum node level, and 0    *)
(* for a tree without nodes.                                                *)
C4_MaxLevel ==
    Built => GetMaxLevel = IF DOMAIN nodes = {} THEN 0
                           ELSE MaxOf({nodes[n].Level : n \in DOMAIN nodes})

C4_Witness ==
    /\ Built
    /\ GetMaxLevel = 2
    /\ \E n \in DOMAIN nodes : nodes[n].Level = 0

(* C5: a prerequisite key that the technology set lacks creates no edge,    *)
(* neither a dependency nor a dependent; the other prerequisites of the     *)
(* technology are wired; the tree is built all the same; a technology with  *)
(* only missing prerequisites has no dependencies.                          *)
C5_MissingPrereqDropped ==
    Wired => \A n \in DOMAIN nodes :
        /\ nodes[n].Dependencies = KnownPrereqs(n)
        /\ Range(nodes[n].Dependencies) \subseteq DOMAIN nodes
        /\ Range(nodes[n].Dependents) \subseteq DOMAIN nodes
        /\ \A m \in Range(nodes[n].Dependents) :
               n \in Range(technologies[m].Prerequisites)
        /\ (Range(technologies[n].Prerequisites) \cap DOMAIN technologies = {}
               => Len(nodes[n].Dependencies) = 0)

C5_Witness ==
    /\ Built
    /\ \E n \in DOMAIN nodes :
        /\ Len(technologies[n].Prerequisites) = 2
        /\ technologies[n].Prerequisites[1] \notin DOMAIN technologies
        /\ Len(nodes[n].Dependencies) = 1
    /\ \E n \in DOMAIN nodes :
        /\ Len(technologies[n].Prerequisites) > 0
        /\ Len(nodes[n].Dependencies) = 0

(* C6: after edge wiring the two edge lists mirror each other: d occurs in  *)
(* n.Dependencies as often as n occurs in d.Dependents and as often as the  *)
(* key of d occurs in the prerequisite list of n; n.Dependencies keeps the  *)
(* order of the prerequisite list.                                          *)
C6_EdgesMirror ==
    Wired => \A n \in DOMAIN nodes :
        /\ \A d \in DOMAIN nodes :
            /\ Count(d, nodes[n].Dependencies) = Count(n, nodes[d].Dependents)
            /\ Count(d, nodes[n].Dependencies) =
                   Count(d, technologies[n].Prerequisites)
        /\ nodes[n].Dependencies = KnownPrereqs(n)

C6_Witness ==
    /\ Wired
    /\ \E n, d \in DOMAIN nodes :
        /\ Count(d, technologies[n].Prerequisites) = 2
        /\ Count(n, nodes[d].Dependents) = 2
    /\ \E n \in DOMAIN nodes :
        /\ Len(nodes[n].Dependencies) = 2
        /\ nodes[n].Dependencies[1] # nodes[n].Dependencies[2]

(* C7: a technology with an empty prerequisite list gets level 0, whatever  *)
(* the rest of the technology set is (cycles and missing prerequisites      *)
(* included).                                                               *)
C7_NoPrereqsLevelZero ==
    Built => \A n \in DOMAIN nodes :
        technologies[n].Prerequisites = <<>> => nodes[n].Level = 0

C7_Witness ==
    /\ Built
    /\ HasCycle
    /\ \E n \in DOMAIN nodes : technologies[n].Prerequisites = <<>>
    /\ \E n \in DOMAIN nodes :
           Nonexistent \in Range(technologies[n].Prerequisites)

(* C8: the diamond a; b and c on a; d on b and c (and e on d) gets the      *)
(* levels a=0, b=1, c=1, d=2 (e=3) and d has exactly two dependencies,      *)
(* under every iteration order.                                             *)
C8_Diamond ==
    (Built /\ technologies \in {Diamond, DiamondE}) =>
        /\ nodes["tech_a"].Level = 0
        /\ nodes["tech_b"].Level = 1
        /\ nodes["tech_c"].Level = 1
        /\ nodes["tech_d"].Level = 2
        /\ Len(nodes["tech_d"].Dependencies) = 2
        /\ ("tech_e" \in DOMAIN nodes => nodes["tech_e"].Level = 3)

C8_Witness ==
    /\ Built
    /\ technologies = DiamondE
    /\ nodes["tech_a"].Dependents = <<"tech_c", "tech_b">>

(* C9: GetRootNodes() holds, each once, exactly the nodes without           *)
(* dependencies after edge wiring (nodes whose prerequisites are all        *)
(* missing included) and is empty for the empty tree.                       *)
C9_RootNodes ==
    Built =>
        /\ NoDuplicates(GetRootNodes)
        /\ Range(GetRootNodes) =
               {n \in DOMAIN nodes : Len(nodes[n].Dependencies) = 0}
        /\ (DOMAIN nodes = {} => GetRootNodes = <<>>)

C9_Witness ==
    /\ Built
    /\ \E n \in Range(GetRootNodes) : Len(technologies[n].Prerequisites) > 0
    /\ \E n \in DOMAIN nodes : n \notin Range(GetRootNodes)

\* the areas the property is read on: those of the set, none, and a foreign one
Areas == {technologies[n].Area : n \in DOMAIN technologies} \cup {<<>>, Voidcraft}

Tiers == {technologies[n].Tier : n \in DOMAIN technologies} \cup {-1}

(* C10: after NewTechTree, GetNodesByArea(a) holds each node of area a      *)
(* once and no other node, nodes with an empty area being in no bucket;     *)
(* GetNodesByTier(t) holds exactly the nodes of tier t; a node is in the    *)
(* category bucket of every category it lists.                              *)
C10_Indexes ==
    Built =>
        /\ \A a \in Areas :
            /\ NoDuplicates(GetNodesByArea(a))
            /\ Range(GetNodesByArea(a)) =
                   {n \in DOMAIN nodes : technologies[n].Area = a /\ a # <<>>}
        /\ \A t \in Tiers :
            /\ NoDuplicates(GetNodesByTier(t))
            /\ Range(GetNodesByTier(t)) =
                   {n \in DOMAIN nodes : technologies[n].Tier = t}
        /\ \A n \in DOMAIN nodes : \A c \in Range(technologies[n].Category) :
               c \in DOMAIN byCategory /\ n \in Range(byCategory[c])

C10_Witness ==
    /\ Built
    /\ Len(GetNodesByArea(Physics)) = 2
    /\ \E n \in DOMAIN nodes : technologies[n].Area = <<>>
    /\ Len(GetNodesByTier(1)) = 2
    /\ Materials \in DOMAIN byCategory
    /\ Len(byCategory[Computing]) = 2

(* C11: GetAreas(), GetTiers() and GetCategories() return the distinct      *)
(* non-empty areas, the tiers and the listed categories of the nodes, each  *)
(* once and in strictly ascending order, whatever the order the maps were   *)
(* iterated in.                                                             *)
C11_SortedKeys ==
    Built =>
        /\ \A i, j \in DOMAIN GetAreas : i < j => StringLess(GetAreas[i], GetAreas[j])
        /\ Range(GetAreas) =
               {technologies[n].Area : n \in DOMAIN nodes} \ {<<>>}
        /\ \A i, j \in DOMAIN GetTiers : i < j => GetTiers[i] < GetTiers[j]
        /\ Range(GetTiers) = {technologies[n].Tier : n \in DOMAIN nodes}
        /\ \A i, j \in DOMAIN GetCategories :
               i < j => StringLess(GetCategories[i], GetCategories[j])
        /\ Range(GetCategories) =
               UNION {Range(technologies[n].Category) : n \in DOMAIN nodes}

C11_Witness ==
    /\ Built
    /\ GetAreas = <<Physics, Society>>
    /\ GetTiers = <<0, 1, 2>>
    /\ GetCategories = <<Computing, Materials>>
    /\ \E n \in DOMAIN nodes : technologies[n].Area = <<>>

---------------------------------------------------------------------------
(***************************************************************************)
(* The parser.  Its texts are Go strings: sequences of bytes, UTF-8 where   *)
(* they hold characters beyond ASCII.                                      *)
(***************************************************************************)

\* longest generated scalar token, in pieces of Pieces
MaxPieces == 4

Quote == Byte("\"")

\* the white space of ASCII: \t, \n, \v, \f, \r and the blank
AsciiSpace == 9..13 \cup {Byte(" ")}

\* the UTF-8 of the characters unicode.IsSpace accepts beyond ASCII: U+0085,
\* U+00A0, U+1680, U+2000 to U+200A, U+2028, U+2029, U+202F, U+205F, U+3000
UnicodeSpace ==
    {<<194, 133>>, <<194, 160>>, <<225, 154, 128>>}
    \cup {<<226, 128, b>> : b \in 128..138}
    \cup {<<226, 128, 168>>, <<226, 128, 169>>, <<226, 128, 175>>,
          <<226, 129, 159>>, <<227, 128, 128>>}

\* the number of bytes the white space character at position i of s takes,
\* 0 when none stands there
SpaceAt(s, i) ==
    IF i < 1 \/ i > Len(s) THEN 0
    ELSE IF s[i] \in AsciiSpace THEN 1
    ELSE IF s[i] < 128 THEN 0
    ELSE IF i + 1 <= Len(s) /\ SubSeq(s, i, i + 1) \in UnicodeSpace THEN 2
    ELSE IF i + 2 <= Len(s) /\ SubSeq(s, i, i + 2) \in UnicodeSpace THEN 3
    ELSE 0

\* the number of bytes the white space character ending s takes, 0 when none
SpaceAtEnd(s) ==
    IF SpaceAt(s, Len(s)) = 1 THEN 1
    ELSE IF SpaceAt(s, Len(s) - 1) = 2 THEN 2
    ELSE IF SpaceAt(s, Len(s) - 2) = 3 THEN 3
    ELSE 0

DigitChars == Ascii(<<"0", "1", "2", "3", "4", "5", "6", "7", "8", "9">>)

IsDigit(c) == c \in Range(DigitChars)

DigitValue(c) == (CHOOSE i \in DOMAIN DigitChars : DigitChars[i] = c) - 1

\* s[from:] with from a Go index (0-based)
SliceFrom(s, from) == SubSeq(s, from + 1, Len(s))

\* strings.HasPrefix and strings.HasSuffix for a one-character prefix
HasPrefix(s, c) == Len(s) > 0 /\ s[1] = c

HasSuffix(s, c) == Len(s) > 0 /\ s[Len(s)] = c

\* strings.Contains for one character
Contains(s, c) == \E i \in DOMAIN s : s[i] = c

\* strings.Count for one character
StringsCount(s, c) == Cardinality({i \in DOMAIN s : s[i] = c})

\* strings.TrimLeft / TrimRight / Trim with a cutset
RECURSIVE TrimLeft(_, _)
TrimLeft(s, cutset) ==
    IF Len(s) > 0 /\ s[1] \in cutset THEN TrimLeft(Tail(s), cutset) ELSE s

RECURSIVE TrimRight(_, _)
TrimRight(s, cutset) ==
    IF Len(s) > 0 /\ s[Len(s)] \in cutset
    THEN TrimRight(SubSeq(s, 1, Len(s) - 1), cutset) ELSE s

Trim(s, cutset) == TrimRight(TrimLeft(s, cutset), cutset)

\* strings.TrimSpace: the white space characters are cut from both ends
RECURSIVE TrimSpaceLeft(_)
TrimSpaceLeft(s) ==
    IF SpaceAt(s, 1) = 0 THEN s
    ELSE TrimSpaceLeft(SubSeq(s, SpaceAt(s, 1) + 1, Len(s)))

RECURSIVE TrimSpaceRight(_)
TrimSpaceRight(s) ==
    IF SpaceAtEnd(s) = 0 THEN s
    ELSE TrimSpaceRight(SubSeq(s, 1, Len(s) - SpaceAtEnd(s)))

TrimSpace(s) == TrimSpaceRight(TrimSpaceLeft(s))

\* strings.Index for one character, 0 when absent and 1-based otherwise
IndexOf(s, c) ==
    IF Contains(s, c) THEN CHOOSE i \in DOMAIN s : s[i] = c /\ \A j \in 1..(i - 1) : s[j] # c
    ELSE 0

\* strings.Split(s, sep) for a one-character separator
RECURSIVE Split(_, _)
Split(s, sep) ==
    LET i == IndexOf(s, sep)
    IN IF i = 0 THEN <<s>>
       ELSE <<SubSeq(s, 1, i - 1)>> \o Split(SubSeq(s, i + 1, Len(s)), sep)

\* strings.SplitN(s, sep, 2)
SplitN2(s, sep) ==
    LET i == IndexOf(s, sep)
    IN IF i = 0 THEN <<s>>
       ELSE <<SubSeq(s, 1, i - 1), SubSeq(s, i + 1, Len(s))>>

\* strings.Fields: the maximal runs of bytes without a white space character
RECURSIVE Fields(_)
Fields(s) ==
    LET t == TrimSpaceLeft(s)
    IN IF Len(t) = 0 THEN <<>>
       ELSE LET ends == {i \in DOMAIN t : SpaceAt(t, i) > 0}
                n == IF ends = {} THEN Len(t)
                     ELSE (CHOOSE i \in ends : \A j \in ends : i <= j) - 1
            IN <<SubSeq(t, 1, n)>> \o Fields(SubSeq(t, n + 1, Len(t)))

RECURSIVE Concat(_)
Concat(ss) == IF Len(ss) = 0 THEN <<>> ELSE Head(ss) \o Concat(Tail(ss))

---------------------------------------------------------------------------
(* The dynamically typed values (interface{}) the parser produces *)

StringValue(s) == [type |-> "string", val |-> s]

BoolValue(b) == [type |-> "bool", val |-> b]

IntValue(n) == [type |-> "int", val |-> n]

\* a float64 as the decimal it was read from: (-1)^neg * digits * 10^exp,
\* digits without leading and trailing zeros; binary rounding is not modelled
FloatValue(neg, digits, exp) ==
    [type |-> "float", val |-> [neg |-> neg, digits |-> digits, exp |-> exp]]

ArrayValue(elems) == [type |-> "array", val |-> elems]

MapValue(m) == [type |-> "map", val |-> m]

---------------------------------------------------------------------------
(* strconv.Atoi and strconv.ParseFloat *)

AllDigits(s) == \A i \in DOMAIN s : IsDigit(s[i])

\* a < b for two digit sequences of the same length
DigitsLess(a, b) ==
    \E i \in DOMAIN a :
        /\ DigitValue(a[i]) < DigitValue(b[i])
        /\ \A j \in 1..(i - 1) : a[j] = b[j]

RECURSIVE DigitsToInt(_, _)
DigitsToInt(s, acc) ==
    IF Len(s) = 0 THEN acc ELSE DigitsToInt(Tail(s), acc * 10 + DigitValue(s[1]))

\* the digits of math.MaxInt64 and of -math.MinInt64
MaxInt64Digits ==
    Ascii(<<"9","2","2","3","3","7","2","0","3","6","8","5","4","7","7","5","8","0","7">>)

MinInt64Digits ==
    Ascii(<<"9","2","2","3","3","7","2","0","3","6","8","5","4","7","7","5","8","0","8">>)

\* the sign an optional leading + or - gives, and the text after it
SignOf(s) == Len(s) > 0 /\ s[1] = Byte("-")

Unsigned(s) == IF Len(s) > 0 /\ s[1] \in Bytes({"+", "-"}) THEN Tail(s) ELSE s

\* strconv.Atoi with a 64-bit int: [ok, val]
Atoi(s) ==
    LET body == Unsigned(s)
        significant == TrimLeft(body, Bytes({"0"}))
        limit == IF SignOf(s) THEN MinInt64Digits ELSE MaxInt64Digits
    IN IF Len(body) = 0 \/ ~AllDigits(body) THEN [ok |-> FALSE, val |-> 0]
       ELSE IF Len(significant) > Len(limit)
               \/ (Len(significant) = Len(limit) /\ DigitsLess(limit, significant))
       THEN [ok |-> FALSE, val |-> 0]
       ELSE [ok |-> TRUE,
             val |-> IF SignOf(s) THEN 0 - DigitsToInt(significant, 0)
                     ELSE DigitsToInt(significant, 0)]

\* lower(c) of strconv: the lower-case letter of an upper-case letter
UpperChars ==
    Ascii(<<"A","B","C","D","E","F","G","H","I","J","K","L","M",
      "N","O","P","Q","R","S","T","U","V","W","X","Y","Z">>)

LowerChars ==
    Ascii(<<"a","b","c","d","e","f","g","h","i","j","k","l","m",
      "n","o","p","q","r","s","t","u","v","w","x","y","z">>)

Lower(c) ==
    IF c \in Range(UpperChars)
    THEN LowerChars[CHOOSE i \in DOMAIN UpperChars : UpperChars[i] = c]
    ELSE c

LowerText(s) == [i \in DOMAIN s |-> Lower(s[i])]

HexDigitChars == DigitChars \o Ascii(<<"a", "b", "c", "d", "e", "f">>)

IsHexDigit(c) == Lower(c) \in Range(HexDigitChars)

HexValue(c) == (CHOOSE i \in DOMAIN HexDigitChars : HexDigitChars[i] = Lower(c)) - 1

\* the text without its digit separators
WithoutUnderscores(s) == SelectSeq(s, LAMBDA c : c # Byte("_"))

\* readFloat's mantissa loop from the 1-based position i on: the number of
\* characters of s the mantissa takes (digits, separators, one point)
RECURSIVE MantissaEnd(_, _, _, _)
MantissaEnd(s, i, hex, sawdot) ==
    IF i > Len(s) THEN Len(s)
    ELSE IF s[i] = Byte("_") THEN MantissaEnd(s, i + 1, hex, sawdot)
    ELSE IF s[i] = Byte(".") THEN IF sawdot THEN i - 1 ELSE MantissaEnd(s, i + 1, hex, TRUE)
    ELSE IF IsDigit(s[i]) \/ (hex /\ IsHexDigit(s[i])) THEN MantissaEnd(s, i + 1, hex, sawdot)
    ELSE i - 1

\* underscoreOK from the 1-based position i on; saw is the kind of the last
\* character: "0" a digit or the base prefix, "_" a separator, "!" another
RECURSIVE UnderscoreScan(_, _, _, _)
UnderscoreScan(t, i, saw, hex) ==
    IF i > Len(t) THEN saw # Byte("_")
    ELSE IF IsDigit(t[i]) \/ (hex /\ IsHexDigit(t[i])) THEN UnderscoreScan(t, i + 1, Byte("0"), hex)
    ELSE IF t[i] = Byte("_") THEN saw = Byte("0") /\ UnderscoreScan(t, i + 1, Byte("_"), hex)
    ELSE saw # Byte("_") /\ UnderscoreScan(t, i + 1, Byte("!"), hex)

\* underscoreOK: separators stand between digits or after a base prefix
UnderscoreOK(s) ==
    LET t == Unsigned(s)
    IN IF Len(t) >= 2 /\ t[1] = Byte("0") /\ Lower(t[2]) \in Bytes({"b", "o", "x"})
       THEN UnderscoreScan(t, 3, Byte("0"), Lower(t[2]) = Byte("x"))
       ELSE UnderscoreScan(t, 1, Byte("^"), FALSE)

\* the exponent: digits are taken in while the value is below 10000
RECURSIVE ExpFold(_, _)
ExpFold(d, e) ==
    IF Len(d) = 0 THEN e
    ELSE ExpFold(Tail(d), IF e < 10000 THEN e * 10 + DigitValue(d[1]) ELSE e)

\* the decimal digits of a carry below 100
CarryDigits(c) ==
    IF c = 0 THEN <<>>
    ELSE IF c < 10 THEN <<DigitChars[c + 1]>>
    ELSE <<DigitChars[(c \div 10) + 1], DigitChars[(c % 10) + 1]>>

\* the digits of d * k + carry that stay in the places of d, and the carry
\* out of them; the halves are taken in turn, the lower one first
RECURSIVE MulChunk(_, _, _)
MulChunk(d, k, carry) ==
    IF Len(d) = 0 THEN [out |-> <<>>, carry |-> carry]
    ELSE IF Len(d) = 1
    THEN [out |-> <<DigitChars[((DigitValue(d[1]) * k + carry) % 10) + 1]>>,
          carry |-> (DigitValue(d[1]) * k + carry) \div 10]
    ELSE LET m == Len(d) \div 2
             low == MulChunk(SubSeq(d, m + 1, Len(d)), k, carry)
             high == MulChunk(SubSeq(d, 1, m), k, low.carry)
         IN IF low.carry < 0 THEN low
            ELSE [out |-> high.out \o low.out, carry |-> high.carry]

\* the decimal digits of d * k + carry, for a digit sequence d and k <= 16
MulAdd(d, k, carry) ==
    LET product == MulChunk(d, k, carry)
    IN CarryDigits(product.carry) \o product.out

\* the decimal digits of a sequence of hexadecimal digits
RECURSIVE HexToDecimal(_, _)
HexToDecimal(h, acc) ==
    IF Len(h) = 0 THEN acc ELSE HexToDecimal(Tail(h), MulAdd(acc, 16, HexValue(h[1])))

\* d * k^n, one half of the factors after the other
RECURSIVE MulPower(_, _, _)
MulPower(d, k, n) ==
    IF n = 0 \/ Len(d) = 0 THEN d
    ELSE IF n = 1 THEN MulAdd(d, k, 0)
    ELSE MulPower(MulPower(d, k, n \div 2), k, n - (n \div 2))

\* the digits of 2^1024 - 2^970, half way between math.MaxFloat64 and 2^1024:
\* from this value on the text is out of range
OverflowDigits ==
    Ascii(<<"1","7","9","7","6","9","3","1","3","4","8","6","2","3","1","5","8","0","7",
      "9","3","7","2","8","9","7","1","4","0","5","3","0","3","4","1","5","0","7",
      "9","9","3","4","1","3","2","7","1","0","0","3","7","8","2","6","9","3","6",
      "1","7","3","7","7","8","9","8","0","4","4","4","9","6","8","2","9","2","7",
      "6","4","7","5","0","9","4","6","6","4","9","0","1","7","9","7","7","5","8",
      "7","2","0","7","0","9","6","3","3","0","2","8","6","4","1","6","6","9","2",
      "8","8","7","9","1","0","9","4","6","5","5","5","5","4","7","8","5","1","9",
      "4","0","4","0","2","6","3","0","6","5","7","4","8","8","6","7","1","5","0",
      "5","8","2","0","6","8","1","9","0","8","9","0","2","0","0","0","7","0","8",
      "3","8","3","6","7","6","2","7","3","8","5","4","8","4","5","8","1","7","7",
      "1","1","5","3","1","7","6","4","4","7","5","7","3","0","2","7","0","0","6",
      "9","8","5","5","5","7","1","3","6","6","9","5","9","6","2","2","8","4","2",
      "9","1","4","8","1","9","8","6","0","8","3","4","9","3","6","4","7","5","2",
      "9","2","7","1","9","0","7","4","1","6","8","4","4","4","3","6","5","5","1",
      "0","7","0","4","3","4","2","7","1","1","5","5","9","6","9","9","5","0","8",
      "0","9","3","0","4","2","8","8","0","1","7","7","9","0","4","1","7","4","4",
      "9","7","7","9","2">>)

\* the digits of 5^1075: 2^-1075 = 5^1075 * 10^-1075 is half the smallest
\* denormal, and a value up to it is read as zero
HalfMinFloatDigits ==
    Ascii(<<"2","4","7","0","3","2","8","2","2","9","2","0","6","2","3","2","7","2","0",
      "8","8","2","8","4","3","9","6","4","3","4","1","1","0","6","8","6","1","8",
      "2","5","2","9","9","0","1","3","0","7","1","6","2","3","8","2","2","1","2",
      "7","9","2","8","4","1","2","5","0","3","3","7","7","5","3","6","3","5","1",
      "0","4","3","7","5","9","3","2","6","4","9","9","1","8","1","8","0","8","1",
      "7","9","9","6","1","8","9","8","9","8","2","8","2","3","4","7","7","2","2",
      "8","5","8","8","6","5","4","6","3","3","2","8","3","5","5","1","7","7","9",
      "6","9","8","9","8","1","9","9","3","8","7","3","9","8","0","0","5","3","9",
      "0","9","3","9","0","6","3","1","5","0","3","5","6","5","9","5","1","5","5",
      "7","0","2","2","6","3","9","2","2","9","0","8","5","8","3","9","2","4","4",
      "9","1","0","5","1","8","4","4","3","5","9","3","1","8","0","2","8","4","9",
      "9","3","6","5","3","6","1","5","2","5","0","0","3","1","9","3","7","0","4",
      "5","7","6","7","8","2","4","9","2","1","9","3","6","5","6","2","3","6","6",
      "9","8","6","3","6","5","8","4","8","0","7","5","7","0","0","1","5","8","5",
      "7","6","9","2","6","9","9","0","3","7","0","6","3","1","1","9","2","8","2",
      "7","9","5","5","8","5","5","1","3","3","2","9","2","7","8","3","4","3","3",
      "8","4","0","9","3","5","1","9","7","8","0","1","5","5","3","1","2","4","6",
      "5","9","7","2","6","3","5","7","9","5","7","4","6","2","2","7","6","6","4",
      "6","5","2","7","2","8","2","7","2","2","0","0","5","6","3","7","4","0","0",
      "6","4","8","5","4","9","9","9","7","7","0","9","6","5","9","9","4","7","0",
      "4","5","4","0","2","0","8","2","8","1","6","6","2","2","6","2","3","7","8",
      "5","7","3","9","3","4","5","0","7","3","6","3","3","9","0","0","7","9","6",
      "7","7","6","1","9","3","0","5","7","7","5","0","6","7","4","0","1","7","6",
      "3","2","4","6","7","3","6","0","0","9","6","8","9","5","1","3","4","0","5",
      "3","5","5","3","7","4","5","8","5","1","6","6","6","1","1","3","4","2","2",
      "3","7","6","6","6","7","8","6","0","4","1","6","2","1","5","9","6","8","0",
      "4","6","1","9","1","4","4","6","7","2","9","1","8","4","0","3","0","0","5",
      "3","0","0","5","7","5","3","0","8","4","9","0","4","8","7","6","5","3","9",
      "1","7","1","1","3","8","6","5","9","1","6","4","6","2","3","9","5","2","4",
      "9","1","2","6","2","3","6","5","3","8","8","1","8","7","9","6","3","6","2",
      "3","9","3","7","3","2","8","0","4","2","3","8","9","1","0","1","8","6","7",
      "2","3","4","8","4","9","7","6","6","8","2","3","5","0","8","9","8","6","3",
      "3","8","8","5","8","7","9","2","5","6","2","8","3","0","2","7","5","5","9",
      "9","5","6","5","7","5","2","4","4","5","5","5","0","7","2","5","5","1","8",
      "9","3","1","3","6","9","0","8","3","6","2","5","4","7","7","9","1","8","6",
      "9","4","8","6","6","7","9","9","4","9","6","8","3","2","4","0","4","9","7",
      "0","5","8","2","1","0","2","8","5","1","3","1","8","5","4","5","1","3","9",
      "6","2","1","3","8","3","7","7","2","2","8","2","6","1","4","5","4","3","7",
      "6","9","3","4","1","2","5","3","2","0","9","8","5","9","1","3","2","7","6",
      "6","7","2","3","6","3","2","8","1","2","5">>)

\* a digit sequence zero-padded to n digits
PadTo(d, n) ==
    [i \in 1..n |-> IF i <= Len(d) THEN d[i] ELSE Byte("0")]

\* a * 10^ea < b * 10^eb for digit sequences without leading zeros
DecimalLess(a, ea, b, eb) ==
    LET n == IF Len(a) > Len(b) THEN Len(a) ELSE Len(b)
    IN IF ea + Len(a) # eb + Len(b) THEN ea + Len(a) < eb + Len(b)
       ELSE DigitsLess(PadTo(a, n), PadTo(b, n))

\* the float64 of the value digits * 10^exp: out of range from the overflow
\* border on, zero up to half the smallest denormal
RoundFloat(neg, digits, exp) ==
    IF Len(digits) = 0 \/ ~DecimalLess(HalfMinFloatDigits, -1075, digits, exp)
    THEN [ok |-> TRUE, val |-> FloatValue(neg, <<>>, 0)]
    ELSE IF ~DecimalLess(digits, exp, OverflowDigits, 0) THEN [ok |-> FALSE, val |-> None]
    ELSE [ok |-> TRUE, val |-> FloatValue(neg, digits, exp)]

\* a decimal mantissa with the exponent e: the digits without leading and
\* trailing zeros and the power of ten they are scaled by
DecimalFloat(neg, int, frac, e) ==
    LET mantissa == TrimLeft(int \o frac, Bytes({"0"}))
        digits == TrimRight(mantissa, Bytes({"0"}))
    IN RoundFloat(neg, digits, e - Len(frac) + (Len(mantissa) - Len(digits)))

\* the decimal of sig * 2^e2 for decimal digits sig
BinaryFloat(neg, sig, e2) ==
    LET scaled == IF e2 >= 0 THEN MulPower(sig, 2, e2) ELSE MulPower(sig, 5, 0 - e2)
        digits == TrimRight(scaled, Bytes({"0"}))
    IN RoundFloat(neg, digits, (IF e2 >= 0 THEN 0 ELSE e2) + (Len(scaled) - Len(digits)))

\* a hexadecimal mantissa with the binary exponent e: the value is
\* sig * 2^(e - 4 * Len(frac)), at least 2^(4 * (Len(sig) - 1)) and below
\* 2^(4 * Len(sig)) times that power of two
HexFloat(neg, int, frac, e) ==
    LET sig == TrimLeft(int \o frac, Bytes({"0"}))
        e2 == e - 4 * Len(frac)
    IN IF Len(sig) = 0 \/ 4 * Len(sig) + e2 <= -1075
       THEN [ok |-> TRUE, val |-> FloatValue(neg, <<>>, 0)]
       ELSE IF 4 * (Len(sig) - 1) + e2 >= 1024 THEN [ok |-> FALSE, val |-> None]
       ELSE BinaryFloat(neg, HexToDecimal(sig, <<>>), e2)

\* special of strconv: "inf" and "infinity" with an optional sign, "nan"
\* without, in any case of the letters
IsInfinity(s) ==
    LowerText(Unsigned(s)) \in { Ascii(<<"i","n","f">>), Ascii(<<"i","n","f","i","n","i","t","y">>) }

IsNaN(s) == LowerText(s) = Ascii(<<"n","a","n">>)

\* readFloat after the sign and the base prefix: the mantissa text, then an
\* exponent (e for decimal, p and mandatory for hexadecimal) up to the end
ReadFloat(s, rest, hex, n) ==
    LET mant == SubSeq(rest, 1, n)
        afterMant == SliceFrom(rest, n)
        point == IndexOf(mant, Byte("."))
        int == WithoutUnderscores(IF point = 0 THEN mant ELSE SubSeq(mant, 1, point - 1))
        frac == WithoutUnderscores(IF point = 0 THEN <<>> ELSE SliceFrom(mant, point))
        hasExp == Len(afterMant) > 0 /\ Lower(afterMant[1]) = (IF hex THEN Byte("p") ELSE Byte("e"))
        expText == IF hasExp THEN Tail(afterMant) ELSE <<>>
        expBody == Unsigned(expText)
        wellFormed ==
            /\ Len(int) + Len(frac) > 0
            /\ IF hasExp
               THEN /\ Len(expBody) > 0
                    /\ IsDigit(expBody[1])
                    /\ \A i \in DOMAIN expBody : IsDigit(expBody[i]) \/ expBody[i] = Byte("_")
               ELSE ~hex /\ Len(afterMant) = 0
            /\ Contains(s, Byte("_")) => UnderscoreOK(s)
        magnitude == ExpFold(WithoutUnderscores(expBody), 0)
        e == IF SignOf(expText) THEN 0 - magnitude ELSE magnitude
    IN IF ~wellFormed THEN [ok |-> FALSE, val |-> None]
       ELSE IF hex THEN HexFloat(SignOf(s), int, frac, e)
       ELSE DecimalFloat(SignOf(s), int, frac, e)

\* strconv.ParseFloat(s, 64): [ok, val]
ParseFloat(s) ==
    LET body == Unsigned(s)
        hex == Len(body) > 2 /\ body[1] = Byte("0") /\ Lower(body[2]) = Byte("x")
        rest == IF hex THEN SliceFrom(body, 2) ELSE body
    IN IF IsInfinity(s) THEN [ok |-> TRUE, val |-> FloatValue(SignOf(s), Ascii(<<"i","n","f">>), 0)]
       ELSE IF IsNaN(s) THEN [ok |-> TRUE, val |-> FloatValue(FALSE, Ascii(<<"n","a","n">>), 0)]
       ELSE ReadFloat(s, rest, hex, MantissaEnd(rest, 1, hex, FALSE))

---------------------------------------------------------------------------
(* parseValue *)

\* the trial order with the number trials before the quoted-string trial
ParseValueNumbersFirst(value) ==
    LET v == TrimRight(TrimSpace(value), Bytes({","}))
        unquoted == Trim(v, {Quote})
    IN IF Atoi(unquoted).ok THEN IntValue(Atoi(unquoted).val)
       ELSE IF v \in {Ascii(<<"y","e","s">>), Ascii(<<"t","r","u","e">>)} THEN BoolValue(TRUE)
       ELSE IF v \in {Ascii(<<"n","o">>), Ascii(<<"f","a","l","s","e">>)} THEN BoolValue(FALSE)
       ELSE IF HasPrefix(v, Quote) /\ HasSuffix(v, Quote) THEN StringValue(unquoted)
       ELSE IF ParseFloat(v).ok THEN ParseFloat(v).val
       ELSE StringValue(v)

parseValue(value) ==
    LET v == TrimRight(TrimSpace(value), Bytes({","}))
    IN IF HasPrefix(v, Quote) /\ HasSuffix(v, Quote) THEN StringValue(Trim(v, {Quote}))
       ELSE IF v \in {Ascii(<<"y","e","s">>), Ascii(<<"t","r","u","e">>)} THEN BoolValue(TRUE)
       ELSE IF v \in {Ascii(<<"n","o">>), Ascii(<<"f","a","l","s","e">>)} THEN BoolValue(FALSE)
       ELSE IF Atoi(v).ok THEN IntValue(Atoi(v).val)
       ELSE IF ParseFloat(v).ok THEN ParseFloat(v).val
       ELSE StringValue(v)

---------------------------------------------------------------------------
(* Evaluation of one parser function on one input *)

\* the tree builder is not in use while the parser runs
TreeIdle ==
    /\ technologies = <<>>
    /\ pc = "idle"
    /\ todo = {}
    /\ nodes = EmptyMap
    /\ rootNodes = <<>>
    /\ maxLevel = 0
    /\ queue = <<>>
    /\ byArea = EmptyMap
    /\ byTier = EmptyMap
    /\ byCategory = EmptyMap
    /\ finalized = {}

tvars == <<technologies, pc, todo, nodes, rootNodes, maxLevel, queue,
           byArea, byTier, byCategory, finalized>>

\* the TechParser is not parsing files while one function is evaluated
FilesIdle ==
    /\ ptechs = <<>>
    /\ entries = <<>>
    /\ cursor = 0
    /\ result = "idle"
    /\ lastFile = None
    /\ warnings = 0

fvars == <<ptechs, entries, cursor, result, lastFile, warnings>>

Call(fn, args) == [type |-> "call", fn |-> fn, args |-> args]

Pending(fn) == call.type = "call" /\ call.fn = fn /\ ret = None

Returned(fn) == call.type = "call" /\ call.fn = fn /\ ret # None

\* the words of the generated texts
Yes == Ascii(<<"y", "e", "s">>)
No == Ascii(<<"n", "o">>)
True == Ascii(<<"t", "r", "u", "e">>)
False == Ascii(<<"f", "a", "l", "s", "e">>)

\* the pieces the generated scalar tokens are concatenated from
Pieces ==
    { Ascii(<<"\"">>), Ascii(<<",">>), Ascii(<<" ">>), Ascii(<<"-">>), Ascii(<<".">>), Ascii(<<"4">>), Ascii(<<"e">>),
      Yes, No, True, False, Physics }

\* an integer beyond int64, the special floats, a hexadecimal float, digit
\* separators, white space other than the blank, and the decimals next to
\* the overflow border and to half the smallest denormal
ExtraTokens ==
    { Ascii(<<"9","9","9","9","9","9","9","9","9","9","9","9","9","9","9","9","9","9","9","9">>),
      Ascii(<<"i","n","f">>), Ascii(<<"n","a","n">>), Ascii(<<"4","0">>), Ascii(<<"0","4">>), Ascii(<<"+","4">>),
      Ascii(<<"\t","4","\n">>), Ascii(<<"\f","4","">>), <<194, 160>> \o Ascii(<<"4">>) \o <<194, 133>>,
      <<225, 154, 128>> \o Yes \o <<227, 128, 128>>,
      Ascii(<<"-","I","n","f","i","n","i","t","y">>), Ascii(<<"+","n","a","n">>),
      Ascii(<<"0","x","1","p","4">>), Ascii(<<"0","x","1">>), Ascii(<<"1","_","0","0","0">>),
      Ascii(<<"1","_","_","0">>), Ascii(<<"1","e","1","_","0">>),
      Ascii(<<"1",".","7","9","7","6","9","3","1","3","4","8","6","2","3","1","5","8","e","3","0","8">>),
      Ascii(<<"1",".","7","9","7","6","9","3","1","3","4","8","6","2","3","1","5","8","1","e","3","0","8">>),
      Ascii(<<"2",".","4","7","0","3","2","8","2","2","9","2","0","6","2","3","2","7","3","e","-","3","2","4">>),
      Ascii(<<"2",".","4","7","0","3","2","8","2","2","9","2","0","6","2","3","2","7","e","-","3","2","4">>),
      Ascii(<<"0","x","1",".","f","f","f","f","f","f","f","f","f","f","f","f","f","8","p","1","0","2","3">>) }

\* the tokens of at most n pieces, and the extra ones
Tokens(n) == {Concat(ps) : ps \in SeqsUpTo(Pieces, n)} \cup ExtraTokens

ValueInit ==
    /\ TreeIdle
    /\ FilesIdle
    /\ call \in {Call("parseValue", <<t>>) : t \in Tokens(MaxPieces)}
    /\ ret = None

ParseValueCall ==
    /\ Pending("parseValue")
    /\ ret' = parseValue(call.args[1])
    /\ UNCHANGED <<call, tvars, fvars>>

ValueNext == ParseValueCall

ValueSpec == ValueInit /\ [][ValueNext]_vars

(* C15: parseValue never fails and classifies the token, white space and    *)
(* then trailing commas trimmed, by ordered trial: wrapped in double quotes *)
(* it is the string without the quotes (so quoted yes and quoted 42 stay    *)
(* strings); else yes/true is the boolean true and no/false the boolean     *)
(* false; else a token that reads as a base-10 int is that integer; else a  *)
(* token that reads as a floating-point number is a float; else it is the   *)
(* raw token as a string.                                                   *)
C15_ParseValue ==
    Returned("parseValue") =>
        LET t == TrimRight(TrimSpace(call.args[1]), Bytes({","}))
            quoted == Len(t) >= 1 /\ t[1] = Quote /\ t[Len(t)] = Quote
            inner == SubSeq(t, 2, Len(t) - 1)
        IN /\ ret.type \in {"string", "bool", "int", "float"}
           /\ quoted =>
                 /\ ret.type = "string"
                 /\ (Len(t) >= 2 /\ ~HasPrefix(inner, Quote) /\ ~HasSuffix(inner, Quote))
                        => ret.val = inner
           /\ (~quoted /\ t \in {Yes, True}) => ret = BoolValue(TRUE)
           /\ (~quoted /\ t \in {No, False}) => ret = BoolValue(FALSE)
           /\ (~quoted /\ t \notin {Yes, True, No, False} /\ Atoi(t).ok)
                 => ret = IntValue(Atoi(t).val)
           /\ (~quoted /\ t \notin {Yes, True, No, False} /\ ~Atoi(t).ok
                 /\ ParseFloat(t).ok) => ret.type = "float"
           /\ (~quoted /\ t \notin {Yes, True, No, False} /\ ~Atoi(t).ok
                 /\ ~ParseFloat(t).ok) => ret = StringValue(t)

C15_Witness ==
    /\ Returned("parseValue")
    /\ call.args[1] = Ascii(<<"\"", "4", "\"", ",">>)
    /\ ret = StringValue(Ascii(<<"4">>))

(***************************************************************************)
(* extractBlock (parser.go 307-344).  lines is the slice parseBlock split  *)
(* its content into, startIndex the 0-based index of the line whose value  *)
(* starts with an opening brace.  The scan state is the builder, the brace *)
(* depth and the two flags; done is set where the code returns from inside *)
(* the character loop.                                                     *)
(***************************************************************************)
MaxLines == 3

ScanStart == [block |-> <<>>, braceDepth |-> 0, started |-> FALSE,
              firstBrace |-> TRUE, done |-> FALSE]

\* utf8.DecodeRuneInString at position i: the number of bytes of the
\* character encoded there, 0 when the bytes there encode none
RuneLen(s, i) ==
    LET b == s[i]
        In(j, lo, hi) == j <= Len(s) /\ s[j] >= lo /\ s[j] <= hi
    IN IF b < 128 THEN 1
       ELSE IF b \in 194..223
       THEN IF In(i + 1, 128, 191) THEN 2 ELSE 0
       ELSE IF b \in 224..239
       THEN IF /\ In(i + 1, IF b = 224 THEN 160 ELSE 128, IF b = 237 THEN 159 ELSE 191)
               /\ In(i + 2, 128, 191)
            THEN 3 ELSE 0
       ELSE IF b \in 240..244
       THEN IF /\ In(i + 1, IF b = 240 THEN 144 ELSE 128, IF b = 244 THEN 143 ELSE 191)
               /\ In(i + 2, 128, 191)
               /\ In(i + 3, 128, 191)
            THEN 4 ELSE 0
       ELSE 0

\* line 316: the character the range loop reads at position i, as its
\* UTF-8; where the bytes are no UTF-8 it reads U+FFFD for one byte
RuneAt(s, i) ==
    IF RuneLen(s, i) = 0
    THEN <<239, 191, 189>>
    ELSE SubSeq(s, i, i + RuneLen(s, i) - 1)

\* lines 335-337 and 340-342: the character is kept only inside the block
WriteRune(st, c) ==
    IF st.started /\ st.braceDepth > 0
    THEN [st EXCEPT !.block = @ \o c]
    ELSE st

\* the faulty variant that returns at the first closing brace, nested or not
ScanCharFlat(st, c) ==
    IF c = <<Byte("{")>>
    THEN LET s1 == [st EXCEPT !.braceDepth = @ + 1, !.started = TRUE]
         IN IF st.firstBrace THEN [s1 EXCEPT !.firstBrace = FALSE]
            ELSE WriteRune(s1, c)
    ELSE IF c = <<Byte("}")>>
    THEN [st EXCEPT !.braceDepth = @ - 1, !.done = TRUE]
    ELSE WriteRune(st, c)

\* lines 317-337: one character of the inner loop
ScanChar(st, c) ==
    IF c = <<Byte("{")>>
    THEN LET s1 == [st EXCEPT !.braceDepth = @ + 1, !.started = TRUE]
         IN IF st.firstBrace THEN [s1 EXCEPT !.firstBrace = FALSE]
            ELSE WriteRune(s1, c)
    ELSE IF c = <<Byte("}")>>
    THEN LET s1 == [st EXCEPT !.braceDepth = @ - 1]
         IN IF s1.braceDepth = 0 THEN [s1 EXCEPT !.done = TRUE]
            ELSE WriteRune(s1, c)
    ELSE WriteRune(st, c)

RECURSIVE ScanLine(_, _, _)
ScanLine(line, k, st) ==
    IF k > Len(line) \/ st.done THEN st
    ELSE ScanLine(line, k + (IF RuneLen(line, k) = 0 THEN 1 ELSE RuneLen(line, k)),
                  ScanChar(st, RuneAt(line, k)))

\* lines 314-343: the outer loop from line i (0-based) on
RECURSIVE ScanLines(_, _, _)
ScanLines(lines, i, st) ==
    IF i >= Len(lines) THEN [block |-> st.block, next |-> Len(lines)]
    ELSE LET s1 == ScanLine(lines[i + 1], 1, st)
         IN IF s1.done THEN [block |-> s1.block, next |-> i + 1]
            ELSE ScanLines(lines, i + 1, WriteRune(s1, <<Byte("\n")>>))

extractBlock(lines, startIndex) == ScanLines(lines, startIndex, ScanStart)

---------------------------------------------------------------------------
(* extractBlock on the lines of a block body *)

\* lines of a body: block headers, one of them with the opening brace as
\* its key, one-line blocks, closing lines, scalars, one of them with a
\* character of three bytes (U+20AC)
BlockLines ==
    { Ascii(<<"a", " ", "=", " ", "{">>),
      Ascii(<<"{", " ", "=", " ", "{">>),
      Ascii(<<"b", " ", "=", " ", "{", " ", "c", " ", "=", " ", "1", " ", "}">>),
      Ascii(<<"c", " ", "=", " ", "{", " ", "d", " ", "=", " ", "{">>),
      Ascii(<<"x", " ", "=", " ", "1">>),
      Ascii(<<"\"", "x", "\"", " ", "\"">>) \o <<226, 130, 172, Quote>>,
      Ascii(<<"}">>),
      Ascii(<<"}", " ", "}">>),
      Ascii(<<"\t", "}">>) }

\* line 281: the value after the first = starts with an opening brace
OpensBlock(line) ==
    LET parts == SplitN2(TrimSpace(line), Byte("="))
    IN Len(parts) = 2 /\ HasPrefix(TrimSpace(parts[2]), Byte("{"))

BlockInit ==
    /\ TreeIdle
    /\ FilesIdle
    /\ \E lines \in SeqsUpTo(BlockLines, MaxLines) : \E i \in 0..(Len(lines) - 1) :
          /\ OpensBlock(lines[i + 1])
          /\ call = Call("extractBlock", <<lines, i>>)
    /\ ret = None

ExtractBlockCall ==
    /\ Pending("extractBlock")
    /\ ret' = extractBlock(call.args[1], call.args[2])
    /\ UNCHANGED <<call, tvars, fvars>>

BlockNext == ExtractBlockCall

BlockSpec == BlockInit /\ [][BlockNext]_vars

\* the lines from 0-based index i on as one text, a newline between two lines
RECURSIVE JoinLines(_, _)
JoinLines(lines, i) ==
    IF i >= Len(lines) THEN <<>>
    ELSE IF i = Len(lines) - 1 THEN lines[i + 1]
    ELSE lines[i + 1] \o Ascii(<<"\n">>) \o JoinLines(lines, i + 1)

\* opening minus closing braces among text[a..b]
Balance(text, a, b) ==
    Cardinality({k \in a..b : text[k] = Byte("{")}) - Cardinality({k \in a..b : text[k] = Byte("}")})

\* the closing braces that bring the depth opened at position open back to zero
Closers(text, open) ==
    {j \in (open + 1)..Len(text) : text[j] = Byte("}") /\ Balance(text, open, j) = 0}

\* the first of them matches the opening brace
MatchingClose(text, open) ==
    CHOOSE j \in Closers(text, open) : \A k \in Closers(text, open) : j <= k

(* C16: for a block whose opening brace has a matching closing brace,      *)
(* extractBlock returns the text strictly between the two, nested braces   *)
(* and the newlines between interior lines kept, and the index of the line *)
(* after the one that holds the matching brace, which is beyond the start. *)
C16_ExtractBlock ==
    Returned("extractBlock") =>
        LET lines == call.args[1]
            start == call.args[2]
            text == JoinLines(lines, start)
            open == IndexOf(text, Byte("{"))
        IN (open > 0 /\ IndexOf(lines[start + 1], Byte("}")) \notin 1..open
              /\ Closers(text, open) # {}) =>
             LET close == MatchingClose(text, open)
             IN /\ ret.block = SubSeq(text, open + 1, close - 1)
                /\ ret.next = start + 1
                     + Cardinality({k \in 1..close : text[k] = Byte("\n")})
                /\ ret.next > start
                /\ ret.next <= Len(lines)

\* a nested block over three lines: the inner braces and both newlines kept
C16_Witness ==
    /\ Returned("extractBlock")
    /\ call.args = << <<Ascii(<<"c", " ", "=", " ", "{", " ", "d", " ", "=", " ", "{">>), Ascii(<<"x", " ", "=", " ", "1">>), Ascii(<<"}", " ", "}">>)>>, 0 >>
    /\ ret = [block |-> Ascii(<<" ", "d", " ", "=", " ", "{", "\n", "x", " ", "=", " ", "1", "\n", "}", " ">>), next |-> 3]

---------------------------------------------------------------------------
(* isArray (parser.go 347-353) and parseArray (parser.go 356-381) *)

\* the cutset "{} \n\t" of lines 349 and 360
BraceCutset == Bytes({"{", "}", " ", "\n", "\t"})

\* the faulty variant whose cutset also takes the equals sign
IsArrayTrimEquals(content) == ~Contains(Trim(content, BraceCutset \cup Bytes({"="})), Byte("="))

isArray(content) == ~Contains(Trim(content, BraceCutset), Byte("="))

\* FindAllStringSubmatch of "([^"]+)": leftmost matches that do not overlap;
\* a quote directly followed by a quote matches nothing and the scan goes
\* on from the second of the two
RECURSIVE FindAllQuoted(_)
FindAllQuoted(s) ==
    LET i == IndexOf(s, Quote)
        rest == SubSeq(s, i + 1, Len(s))
        j == IndexOf(rest, Quote)
    IN IF i = 0 \/ j = 0 THEN <<>>
       ELSE IF j = 1 THEN FindAllQuoted(rest)
       ELSE <<SubSeq(rest, 1, j - 1)>> \o FindAllQuoted(SubSeq(rest, j + 1, Len(rest)))

parseArray(content) ==
    LET c == Trim(content, BraceCutset)
        matches == FindAllQuoted(c)
        parts == Fields(c)
    IN IF Len(matches) > 0
       THEN ArrayValue([k \in 1..Len(matches) |-> StringValue(matches[k])])
       ELSE ArrayValue([k \in 1..Len(parts) |-> parseValue(parts[k])])

\* the pieces the generated block bodies are concatenated from
BodyPieces ==
    { Ascii(<<"\"", "x", "\"">>), Ascii(<<"\"", "y", "\"">>), Ascii(<<"\"", "\"">>), Ascii(<<" ">>), Ascii(<<"=">>), Ascii(<<"{">>), Ascii(<<"}">>), Ascii(<<"4">>), Yes, Ascii(<<"\n">>) }

\* the bodies of TestParseArray and TestIsArray, and an empty item between two
ExtraBodies ==
    { Ascii(<<"{", " ", "\"", "t", "e", "c", "h", "_", "1", "\"", " ", "\"", "t", "e", "c", "h", "_", "2", "\"", " ", "\"", "t", "e", "c", "h", "_", "3", "\"", " ", "}">>),
      Ascii(<<"{", " ", "\"", "t", "e", "c", "h", "_", "1", "\"", " ", "}">>),
      Ascii(<<"{", " ", "}">>),
      Ascii(<<"{", " ", "\"", "i", "t", "e", "m", "1", "\"", " ", "\"", "i", "t", "e", "m", "2", "\"", " ", "}">>),
      Ascii(<<"{", " ", "k", "e", "y", " ", "=", " ", "v", "a", "l", "u", "e", " ", "}">>),
      Ascii(<<"{", " ", "\"", "x", "\"", " ", "\"", "\"", " ", "\"", "y", "\"", " ", "}">>) }

\* the bodies of at most n pieces, and the extra ones
Bodies(n) == {Concat(ps) : ps \in SeqsUpTo(BodyPieces, n)} \cup ExtraBodies

BodyInit ==
    /\ TreeIdle
    /\ FilesIdle
    /\ call \in {Call(fn, <<b>>) : fn \in {"isArray", "parseArray"}, b \in Bodies(MaxPieces)}
    /\ ret = None

IsArrayCall ==
    /\ Pending("isArray")
    /\ ret' = BoolValue(isArray(call.args[1]))
    /\ UNCHANGED <<call, tvars, fvars>>

ParseArrayCall ==
    /\ Pending("parseArray")
    /\ ret' = parseArray(call.args[1])
    /\ UNCHANGED <<call, tvars, fvars>>

BodyNext == IsArrayCall \/ ParseArrayCall

BodySpec == BodyInit /\ [][BodyNext]_vars

(* C17: isArray answers false (a map) exactly when the body holds an equals *)
(* sign and true (an array) otherwise; the array of two quoted items and    *)
(* the empty body are arrays, the body key = value is a map.                *)
C17_IsArray ==
    Returned("isArray") =>
        LET body == call.args[1]
        IN /\ ret = BoolValue(\A k \in DOMAIN body : body[k] # Byte("="))
           /\ body = Ascii(<<"{", " ", "\"", "i", "t", "e", "m", "1", "\"", " ", "\"", "i", "t", "e", "m", "2", "\"", " ", "}">>) => ret = BoolValue(TRUE)
           /\ body = Ascii(<<"{", " ", "k", "e", "y", " ", "=", " ", "v", "a", "l", "u", "e", " ", "}">>) => ret = BoolValue(FALSE)
           /\ body = Ascii(<<"{", " ", "}">>) => ret = BoolValue(TRUE)

\* a body that starts with its only equals sign is a map
C17_Witness ==
    /\ Returned("isArray")
    /\ call.args[1] = Ascii(<<"=", " ", "\"", "x", "\"">>)
    /\ ret = BoolValue(FALSE)

\* the double-quoted items of a body: the quotes paired in order, first with
\* second, third with fourth, and the text between the two of a pair
RECURSIVE QuotedItems(_)
QuotedItems(s) ==
    LET i == IndexOf(s, Quote)
        rest == SubSeq(s, i + 1, Len(s))
        j == IndexOf(rest, Quote)
    IN IF i = 0 \/ j = 0 THEN <<>>
       ELSE <<SubSeq(rest, 1, j - 1)>> \o QuotedItems(SubSeq(rest, j + 1, Len(rest)))

\* the body without the braces and the white space around it, split on white space
BodyTokens(body) == Fields(Trim(body, BraceCutset))

(* C18: parseArray returns one string per double-quoted item of the body,  *)
(* in source order, so n quoted items give n elements; only a body without *)
(* a quoted item is split on white space, each token read by parseValue,   *)
(* and an empty body gives no element.                                     *)
C18_ParseArray ==
    Returned("parseArray") =>
        LET body == call.args[1]
            items == QuotedItems(body)
            tokens == BodyTokens(body)
        IN /\ ret.type = "array"
           /\ Len(items) > 0 =>
                 ret.val = [k \in 1..Len(items) |-> StringValue(items[k])]
           /\ Len(items) = 0 =>
                 ret.val = [k \in 1..Len(tokens) |-> parseValue(tokens[k])]
           /\ tokens = <<>> => ret.val = <<>>

---------------------------------------------------------------------------
(* parseBlock (parser.go 260-303) *)

\* the faulty variant that keeps the first value of a key
PutIfAbsent(m, key, value) ==
    IF key \in DOMAIN m THEN m
    ELSE [x \in DOMAIN m \cup {key} |-> IF x = key THEN value ELSE m[x]]

\* result[key] = value (lines 291, 293 and 297)
Put(m, key, value) ==
    [x \in DOMAIN m \cup {key} |-> IF x = key THEN value ELSE m[x]]

RECURSIVE parseBlock(_)
RECURSIVE ParseLines(_, _, _)

\* lines 266-300: the loop from line i (0-based) on, result the map so far
ParseLines(lines, i, m) ==
    IF i >= Len(lines) THEN m
    ELSE LET line == TrimSpace(lines[i + 1])
             parts == SplitN2(line, Byte("="))
         IN IF line = <<>> \/ line = Ascii(<<"}">>) THEN ParseLines(lines, i + 1, m)
            ELSE IF Len(parts) # 2 THEN ParseLines(lines, i + 1, m)
            ELSE LET key == TrimSpace(parts[1])
                     valuePart == TrimSpace(parts[2])
                 IN IF HasPrefix(valuePart, Byte("{"))
                    THEN LET b == extractBlock(lines, i)
                             value == IF isArray(b.block) THEN parseArray(b.block)
                                      ELSE parseBlock(b.block)
                         IN ParseLines(lines, b.next, Put(m, key, value))
                    ELSE ParseLines(lines, i + 1, Put(m, key, parseValue(valuePart)))

parseBlock(content) == MapValue(ParseLines(Split(content, Byte("\n")), 0, EmptyMap))

\* the entries the generated block contents are written from: the key, the
\* lines of the entry and the value the entry gives the key
Entry(key, lines, value) == [key |-> key, lines |-> lines, value |-> value]

Cost == Ascii(<<"c", "o", "s", "t">>)
Tier == Ascii(<<"t", "i", "e", "r">>)
Area == Ascii(<<"a", "r", "e", "a">>)
Category == Ascii(<<"c", "a", "t", "e", "g", "o", "r", "y">>)

BlockEntries ==
    { Entry(Cost, <<Ascii(<<"c", "o", "s", "t", " ", "=", " ", "1", "0", "0">>)>>, IntValue(100)),
      Entry(Cost, <<Ascii(<<"\t", "c", "o", "s", "t", " ", "=", " ", "2", "0", "0">>)>>, IntValue(200)),
      Entry(Cost, <<Ascii(<<"c", "o", "s", "t", " ", "=", " ", "{">>), Ascii(<<"\t", "t", "i", "e", "r", " ", "=", " ", "1">>), Ascii(<<"}">>)>>,
            MapValue(Tier :> IntValue(1))),
      Entry(Tier, <<Ascii(<<"t", "i", "e", "r", " ", "=", " ", "2">>)>>, IntValue(2)),
      Entry(Tier, <<Ascii(<<"t", "i", "e", "r", " ", "=", " ", "{", " ", "a", "r", "e", "a", " ", "=", " ", "{">>), Ascii(<<"c", "o", "s", "t", " ", "=", " ", "7">>), Ascii(<<"}", " ", "}">>)>>,
            MapValue(Area :> MapValue(Cost :> IntValue(7)))),
      Entry(Area, <<Ascii(<<"a", "r", "e", "a", " ", "=", " ", "{", " ", "c", "o", "s", "t", " ", "=", " ", "5", " ", "}">>)>>, MapValue(Cost :> IntValue(5))),
      Entry(Area, <<Ascii(<<"a", "r", "e", "a", " ", "=", " ", "\"", "p", "h", "y", "s", "i", "c", "s", "\"">>)>>, StringValue(Physics)),
      Entry(Category, <<Ascii(<<"c", "a", "t", "e", "g", "o", "r", "y", " ", "=", " ", "{", " ", "\"", "x", "\"", " ", "\"", "y", "\"", " ", "}">>)>>,
            ArrayValue(<<StringValue(Ascii(<<"x">>)), StringValue(Ascii(<<"y">>))>>)) }

\* the lines of a sequence of entries, each line ended by a newline, as
\* extractTopLevelBlocks writes a block (lines 136-137)
RECURSIVE WriteLines(_)
WriteLines(lines) ==
    IF Len(lines) = 0 THEN <<>>
    ELSE Head(lines) \o Ascii(<<"\n">>) \o WriteLines(Tail(lines))

RECURSIVE WriteEntries(_)
WriteEntries(es) ==
    IF Len(es) = 0 THEN <<>>
    ELSE WriteLines(Head(es).lines) \o WriteEntries(Tail(es))

\* a call that remembers the entries its argument was written from
CallFrom(fn, args, from) == [type |-> "call", fn |-> fn, args |-> args, from |-> from]

MapInit ==
    /\ TreeIdle
    /\ FilesIdle
    /\ \E es \in SeqsUpTo(BlockEntries, MaxLines) :
          call = CallFrom("parseBlock", <<WriteEntries(es)>>, es)
    /\ ret = None

ParseBlockCall ==
    /\ Pending("parseBlock")
    /\ ret' = parseBlock(call.args[1])
    /\ UNCHANGED <<call, tvars, fvars>>

MapNext == ParseBlockCall

MapSpec == MapInit /\ [][MapNext]_vars

\* the position of the last entry of es that defines key
LastDefining(es, key) ==
    CHOOSE k \in DOMAIN es : es[k].key = key /\ \A j \in (k + 1)..Len(es) : es[j].key # key

(* C19: the mapping parseBlock returns holds exactly the keys the entries    *)
(* of the block define, each once, with the value of the last entry that     *)
(* defines it, whether that entry or an earlier one is a scalar or a nested  *)
(* block; a key that only a nested block defines is not a key of the         *)
(* enclosing mapping.                                                        *)
C19_LastValueWins ==
    Returned("parseBlock") =>
        LET es == call.from
        IN /\ ret.type = "map"
           /\ DOMAIN ret.val = {es[k].key : k \in DOMAIN es}
           /\ \A key \in DOMAIN ret.val : ret.val[key] = es[LastDefining(es, key)].value

\* cost defined three times, a nested block with the key tier in between:
\* the last scalar wins and tier is no key of the result
C19_Witness ==
    /\ Returned("parseBlock")
    /\ call.args[1] = Ascii(<<"c", "o", "s", "t", " ", "=", " ", "1", "0", "0", "\n", "c", "o", "s", "t", " ", "=", " ", "{", "\n", "\t", "t", "i", "e", "r", " ", "=", " ", "1", "\n", "}", "\n", "\t", "c", "o", "s", "t", " ", "=", " ", "2", "0", "0", "\n">>)
    /\ ret = MapValue(Cost :> IntValue(200))

---------------------------------------------------------------------------
(* extractTopLevelBlocks (parser.go 111-156) *)

\* the classes \w and \s of the pattern (\w+)\s*=\s*\{ of line 115
WordChars ==
    Bytes({ "a", "b", "c", "d", "e", "f", "g", "h", "i", "j", "k", "l", "m",
      "n", "o", "p", "q", "r", "s", "t", "u", "v", "w", "x", "y", "z",
      "A", "B", "C", "D", "E", "F", "G", "H", "I", "J", "K", "L", "M",
      "N", "O", "P", "Q", "R", "S", "T", "U", "V", "W", "X", "Y", "Z",
      "0", "1", "2", "3", "4", "5", "6", "7", "8", "9", "_" })

RegexSpace == Bytes({" ", "\t", "\n", "\f", "\r"})

\* the longest run of word characters a text ends with
RECURSIVE WordSuffix(_)
WordSuffix(s) ==
    IF Len(s) > 0 /\ s[Len(s)] \in WordChars
    THEN WordSuffix(SubSeq(s, 1, Len(s) - 1)) \o <<s[Len(s)]>>
    ELSE <<>>

\* the pattern can match around the equals sign at position e
MatchesAt(line, e) ==
    /\ line[e] = Byte("=")
    /\ WordSuffix(TrimRight(SubSeq(line, 1, e - 1), RegexSpace)) # <<>>
    /\ HasPrefix(TrimLeft(SubSeq(line, e + 1, Len(line)), RegexSpace), Byte("{"))

\* pattern.FindStringSubmatch(line): the leftmost match and its group 1
FindStringSubmatch(line) ==
    LET es == {e \in DOMAIN line : MatchesAt(line, e)}
    IN IF es = {} THEN [ok |-> FALSE, key |-> <<>>]
       ELSE LET e == CHOOSE x \in es : \A y \in es : x <= y
            IN [ok |-> TRUE,
                key |-> WordSuffix(TrimRight(SubSeq(line, 1, e - 1), RegexSpace))]

\* strings.Count(line, "{") - strings.Count(line, "}")
BraceDelta(line) == StringsCount(line, Byte("{")) - StringsCount(line, Byte("}"))

TopStart == [blocks |-> EmptyMap, currentKey |-> <<>>, currentBlock |-> <<>>,
             braceDepth |-> 0, inBlock |-> FALSE]

\* lines 126-128 and 151-153: the open block is saved
Flush(st) ==
    IF st.inBlock /\ st.currentKey # <<>>
    THEN [st EXCEPT !.blocks = Put(@, st.currentKey, st.currentBlock)]
    ELSE st

\* the faulty variant that starts a block at a matching line of any depth
TopLineAnyDepth(st, line) ==
    LET matches == FindStringSubmatch(line)
    IN IF matches.ok
       THEN [Flush(st) EXCEPT !.currentKey = matches.key, !.currentBlock = <<>>,
                              !.inBlock = TRUE,
                              !.braceDepth = st.braceDepth + BraceDelta(line)]
       ELSE st

\* lines 124-147: one line of the loop
TopLine(st, line) ==
    LET matches == FindStringSubmatch(line)
    IN IF matches.ok /\ st.braceDepth = 0
       THEN [Flush(st) EXCEPT !.currentKey = matches.key, !.currentBlock = <<>>,
                              !.inBlock = TRUE,
                              !.braceDepth = st.braceDepth + BraceDelta(line)]
       ELSE IF st.inBlock
       THEN LET s1 == [st EXCEPT !.currentBlock = @ \o line \o Ascii(<<"\n">>),
                                 !.braceDepth = @ + BraceDelta(line)]
            IN IF s1.braceDepth = 0
               THEN [s1 EXCEPT !.blocks = Put(@, s1.currentKey, s1.currentBlock),
                               !.inBlock = FALSE, !.currentKey = <<>>,
                               !.currentBlock = <<>>]
               ELSE s1
       ELSE st

RECURSIVE TopLines(_, _, _)
TopLines(lines, k, st) ==
    IF k > Len(lines) THEN st ELSE TopLines(lines, k + 1, TopLine(st, lines[k]))

extractTopLevelBlocks(content) ==
    Flush(TopLines(Split(content, Byte("\n")), 1, TopStart)).blocks

---------------------------------------------------------------------------
(* getBool (parser.go 418-428), parseTechnologyBlock (parser.go 159-257)   *)
(* and parseContent (parser.go 95-108).  The parsed Technology holds its   *)
(* texts as character sequences; Potential, which depends on the order Go  *)
(* ranges over a map in, is left out of the record and modelled apart.     *)

\* the faulty variant that accepts only the text "yes"
getBoolYesOnly(data, key) ==
    IF key \in DOMAIN data
    THEN IF data[key].type = "bool" THEN data[key].val
         ELSE IF data[key].type = "string" THEN data[key].val = Yes
         ELSE FALSE
    ELSE FALSE

getBool(data, key) ==
    IF key \in DOMAIN data
    THEN IF data[key].type = "bool" THEN data[key].val
         ELSE IF data[key].type = "string" THEN data[key].val \in {Yes, True}
         ELSE FALSE
    ELSE FALSE

\* v, ok := data[key].(T): the value when the key is there with that type,
\* the zero value the field keeps otherwise
Asserted(data, key, type, zero) ==
    IF key \in DOMAIN data /\ data[key].type = type THEN data[key].val ELSE zero

\* lines 222-244: the string elements of an array field, in order
RECURSIVE StringElements(_)
StringElements(elems) ==
    IF Len(elems) = 0 THEN <<>>
    ELSE IF Head(elems).type = "string"
    THEN <<Head(elems).val>> \o StringElements(Tail(elems))
    ELSE StringElements(Tail(elems))

ZeroFloat == [neg |-> FALSE, digits |-> <<>>, exp |-> 0]

\* the decimal digits of a natural number
RECURSIVE NatDigits(_)
NatDigits(n) ==
    IF n < 10 THEN <<DigitChars[n + 1]>>
    ELSE NatDigits(n \div 10) \o <<DigitChars[(n % 10) + 1]>>

\* float64(i) for an int, in the reading of FloatValue
Float64(i) ==
    LET significant == TrimLeft(NatDigits(IF i < 0 THEN 0 - i ELSE i), Bytes({"0"}))
        digits == TrimRight(significant, Bytes({"0"}))
    IN [neg |-> i < 0, digits |-> digits, exp |-> Len(significant) - Len(digits)]

\* lines 437-441 and 447-451: the float64 of the entry, or the float64 of
\* its int, or the zero the field keeps
ModifierValue(v) ==
    IF v.type = "float" THEN v.val
    ELSE IF v.type = "int" THEN Float64(v.val)
    ELSE ZeroFloat

WeightModifier(factor, add) ==
    [Factor |-> factor, Add |-> add, Conditions |-> <<>>]

\* one modifier for the factor entry, then one for the add entry
parseWeightModifiers(data) ==
    (IF Ascii(<<"f", "a", "c", "t", "o", "r">>) \in DOMAIN data
     THEN <<WeightModifier(ModifierValue(data[Ascii(<<"f", "a", "c", "t", "o", "r">>)]), ZeroFloat)>>
     ELSE <<>>)
    \o (IF Ascii(<<"a", "d", "d">>) \in DOMAIN data
        THEN <<WeightModifier(ZeroFloat, ModifierValue(data[Ascii(<<"a", "d", "d">>)]))>>
        ELSE <<>>)

\* lines 246-249: the modifiers of the map under weight_modifiers, none when
\* the entry is missing or no map
WeightModifiersOf(data) ==
    LET key == Ascii(<<"w", "e", "i", "g", "h", "t", "_", "m", "o", "d", "i", "f", "i", "e", "r", "s">>)
    IN IF key \in DOMAIN data /\ data[key].type = "map"
       THEN parseWeightModifiers(data[key].val)
       ELSE <<>>

\* lines 160-256: the Technology built from the parsed map
NewTechnology(key, data) ==
       [ Key |-> key,
         Cost |-> Asserted(data, Ascii(<<"c", "o", "s", "t">>), "int", 0),
         Area |-> Asserted(data, Ascii(<<"a", "r", "e", "a">>), "string", <<>>),
         Tier |-> Asserted(data, Ascii(<<"t", "i", "e", "r">>), "int", 0),
         Weight |-> Asserted(data, Ascii(<<"w", "e", "i", "g", "h", "t">>), "int", 0),
         BaseWeight |-> Asserted(data, Ascii(<<"b", "a", "s", "e", "_", "w", "e", "i", "g", "h", "t">>), "float", ZeroFloat),
         IsStartTech |-> getBool(data, Ascii(<<"s", "t", "a", "r", "t", "_", "t", "e", "c", "h">>)),
         IsDangerous |-> getBool(data, Ascii(<<"i", "s", "_", "d", "a", "n", "g", "e", "r", "o", "u", "s">>)),
         IsRare |-> getBool(data, Ascii(<<"i", "s", "_", "r", "a", "r", "e">>)),
         IsEvent |-> getBool(data, Ascii(<<"i", "s", "_", "e", "v", "e", "n", "t", "_", "t", "e", "c", "h">>)),
         IsReverse |-> getBool(data, Ascii(<<"i", "s", "_", "r", "e", "v", "e", "r", "s", "e", "_", "e", "n", "g", "i", "n", "e", "e", "r", "a", "b", "l", "e">>)),
         IsRepeatable |-> getBool(data, Ascii(<<"i", "s", "_", "r", "e", "p", "e", "a", "t", "a", "b", "l", "e">>)),
         IsGestalt |-> getBool(data, Ascii(<<"i", "s", "_", "g", "e", "s", "t", "a", "l", "t">>)),
         IsMegacorp |-> getBool(data, Ascii(<<"i", "s", "_", "m", "e", "g", "a", "c", "o", "r", "p">>)),
         IsMachineEmpire |-> getBool(data, Ascii(<<"i", "s", "_", "m", "a", "c", "h", "i", "n", "e", "_", "e", "m", "p", "i", "r", "e">>)),
         IsHiveEmpire |-> getBool(data, Ascii(<<"i", "s", "_", "h", "i", "v", "e", "_", "e", "m", "p", "i", "r", "e">>)),
         IsDriveAssimilator |-> getBool(data, Ascii(<<"i", "s", "_", "d", "r", "i", "v", "e", "_", "a", "s", "s", "i", "m", "i", "l", "a", "t", "o", "r">>)),
         IsRogueServitor |-> getBool(data, Ascii(<<"i", "s", "_", "r", "o", "g", "u", "e", "_", "s", "e", "r", "v", "i", "t", "o", "r">>)),
         Levels |-> Asserted(data, Ascii(<<"l", "e", "v", "e", "l", "s">>), "int", 0),
         AIUpdateType |-> Asserted(data, Ascii(<<"a", "i", "_", "u", "p", "d", "a", "t", "e", "_", "t", "y", "p", "e">>), "string", <<>>),
         Gateway |-> Asserted(data, Ascii(<<"g", "a", "t", "e", "w", "a", "y">>), "string", <<>>),
         Icon |-> Asserted(data, Ascii(<<"i", "c", "o", "n">>), "string", key),
         Prerequisites |-> StringElements(Asserted(data, Ascii(<<"p", "r", "e", "r", "e", "q", "u", "i", "s", "i", "t", "e", "s">>), "array", <<>>)),
         Category |-> StringElements(Asserted(data, Ascii(<<"c", "a", "t", "e", "g", "o", "r", "y">>), "array", <<>>)),
         FeatureUnlocks |-> StringElements(Asserted(data, Ascii(<<"f", "e", "a", "t", "u", "r", "e", "_", "u", "n", "l", "o", "c", "k", "s">>), "array", <<>>)),
         WeightModifiers |-> WeightModifiersOf(data),
         SourceFile |-> <<>> ]

parseTechnologyBlock(key, content) == NewTechnology(key, parseBlock(content).val)

\* lines 99-105: one Technology per captured block, stamped with the file name
parseContent(content, filename) ==
    LET blocks == extractTopLevelBlocks(content)
    IN [key \in DOMAIN blocks |->
           [parseTechnologyBlock(key, blocks[key]) EXCEPT !.SourceFile = filename]]

---------------------------------------------------------------------------
(* extractTopLevelBlocks and parseContent on preprocessed file contents *)

\* lines as readFileContent leaves them: trimmed and not empty
ContentLines ==
    { Ascii(<<"t", "e", "c", "h", "_", "a", " ", "=", " ", "{">>),
      Ascii(<<"t", "e", "c", "h", "_", "b", " ", "=", " ", "{">>),
      Ascii(<<"t", "e", "c", "h", "_", "b", " ", "=", " ", "{", " ", "c", "o", "s", "t", " ", "=", " ", "1", " ", "}">>),
      Ascii(<<"c", "o", "s", "t", " ", "=", " ", "1", "0", "0">>),
      Ascii(<<"p", "o", "t", "e", "n", "t", "i", "a", "l", " ", "=", " ", "{">>),
      Ascii(<<"}">>) }

MaxContentLines == MaxLines + 2

\* the contents of at most n lines
Contents(n) == {WriteLines(ls) : ls \in SeqsUpTo(ContentLines, n)}

FileName == Ascii(<<"0", "0", "_", "t", "e", "s", "t", ".", "t", "x", "t">>)

\* a result that is no interface{} value, with its kind
Returns(kind, v) == [type |-> kind, val |-> v]

TopInit ==
    /\ TreeIdle
    /\ FilesIdle
    /\ \E c \in Contents(MaxContentLines) :
          call \in {Call("extractTopLevelBlocks", <<c>>), Call("parseContent", <<c, FileName>>)}
    /\ ret = None

ExtractTopLevelBlocksCall ==
    /\ Pending("extractTopLevelBlocks")
    /\ ret' = Returns("blocks", extractTopLevelBlocks(call.args[1]))
    /\ UNCHANGED <<call, tvars, fvars>>

ParseContentCall ==
    /\ Pending("parseContent")
    /\ ret' = Returns("techs", parseContent(call.args[1], call.args[2]))
    /\ UNCHANGED <<call, tvars, fvars>>

TopNext == ExtractTopLevelBlocksCall \/ ParseContentCall

TopSpec == TopInit /\ [][TopNext]_vars

\* the brace depth of the text after its first k lines
TextDepth(lines, k) ==
    LET text == Concat(SubSeq(lines, 1, k)) IN Balance(text, 1, Len(text))

\* a line of the form identifier = { ..., and its identifier
IsHeaderLine(line) ==
    LET parts == SplitN2(line, Byte("="))
    IN /\ Len(parts) = 2
       /\ TrimSpace(parts[1]) # <<>>
       /\ \A k \in DOMAIN TrimSpace(parts[1]) : TrimSpace(parts[1])[k] \in WordChars
       /\ HasPrefix(TrimSpace(parts[2]), Byte("{"))

Identifier(line) == TrimSpace(SplitN2(line, Byte("="))[1])

\* the header lines at brace depth zero
TopHeaders(lines) ==
    {k \in DOMAIN lines : TextDepth(lines, k - 1) = 0 /\ IsHeaderLine(lines[k])}

\* the braces of the text nest, and no line outside a block but a header has any
WellNested(lines) ==
    /\ \A k \in DOMAIN lines : TextDepth(lines, k) >= 0
    /\ \A k \in DOMAIN lines :
          (TextDepth(lines, k - 1) = 0 /\ ~IsHeaderLine(lines[k]))
             => (~Contains(lines[k], Byte("{")) /\ ~Contains(lines[k], Byte("}")))

\* the last line of the block the header at line k opens: where the depth is
\* back at zero, or the last line of the text for a block that is never closed
BlockEnd(lines, k) ==
    LET ends == {e \in (k + 1)..Len(lines) : TextDepth(lines, e) = 0}
    IN IF ends = {} THEN Len(lines) ELSE CHOOSE e \in ends : \A x \in ends : e <= x

(* C20: on a text whose braces nest, extractTopLevelBlocks returns exactly   *)
(* one block for every identifier of a line identifier = { at brace depth    *)
(* zero: such a line inside a block starts no block, a block still open at   *)
(* the next depth-zero header or at the end of the text is kept with the     *)
(* lines gathered so far, and parseContent makes one Technology, with that   *)
(* Key, of every such identifier.                                            *)
C20_TopLevelBlocks ==
    LET lines == Split(call.args[1], Byte("\n"))
        heads == TopHeaders(lines)
        ids == {Identifier(lines[k]) : k \in heads}
    IN /\ (Returned("extractTopLevelBlocks") /\ WellNested(lines)) =>
            /\ DOMAIN ret.val = ids
            /\ \A k \in heads :
                  (TextDepth(lines, k) > 0
                      /\ \A j \in heads : j > k => Identifier(lines[j]) # Identifier(lines[k]))
                  => ret.val[Identifier(lines[k])]
                        = WriteLines(SubSeq(lines, k + 1, BlockEnd(lines, k)))
       /\ (Returned("parseContent") /\ WellNested(lines)) =>
            /\ DOMAIN ret.val = ids
            /\ \A id \in ids : ret.val[id].Key = id /\ ret.val[id].SourceFile = call.args[2]

\* a header inside tech_a starts no block; tech_b, never closed, is kept
C20_Witness ==
    /\ Returned("extractTopLevelBlocks")
    /\ call.args[1] = Ascii(<<"t", "e", "c", "h", "_", "a", " ", "=", " ", "{", "\n", "p", "o", "t", "e", "n", "t", "i", "a", "l", " ", "=", " ", "{", "\n", "}", "\n", "}", "\n", "t", "e", "c", "h", "_", "b", " ", "=", " ", "{", "\n">>)
    /\ ret.val = (Ascii(<<"t", "e", "c", "h", "_", "a">>) :> Ascii(<<"p", "o", "t", "e", "n", "t", "i", "a", "l", " ", "=", " ", "{", "\n", "}", "\n", "}", "\n">>)) @@ (Ascii(<<"t", "e", "c", "h", "_", "b">>) :> Ascii(<<"\n">>))

---------------------------------------------------------------------------
(* readFileContent (parser.go 74-92), ParseFile (parser.go 45-71) and      *)
(* ParseDirectory (parser.go 28-42) over a small file system.  A file is   *)
(* its base name, whether it is a directory, its raw text and what goes    *)
(* wrong with it: "open" for os.Open failing, "read" for the scanner       *)
(* failing, "walk" for filepath.Walk handing the callback an error.        *)

MaxFiles == 3

File(name, isDir, fault, raw) ==
    [name |-> name, isDir |-> isDir, fault |-> fault, raw |-> raw]

\* lines 81-83: the line up to its first #
CutComment(line) ==
    IF Contains(line, Byte("#")) THEN SubSeq(line, 1, IndexOf(line, Byte("#")) - 1) ELSE line

\* lines 78-89 for the scanned lines from the k-th on
RECURSIVE ReadLines(_, _)
ReadLines(lines, k) ==
    IF k > Len(lines) THEN <<>>
    ELSE LET line == TrimSpace(CutComment(lines[k]))
         IN IF line # <<>> THEN line \o Ascii(<<"\n">>) \o ReadLines(lines, k + 1)
            ELSE ReadLines(lines, k + 1)

\* bufio.MaxScanTokenSize: the scanner gives up on a line that fills its
\* buffer before the line feed
MaxScanTokenSize == 64 * 1024

\* the lines the scanner hands out: those before the first one too long
Scanned(lines) ==
    LET long == {k \in DOMAIN lines : Len(lines[k]) >= MaxScanTokenSize}
    IN IF long = {} THEN lines
       ELSE SubSeq(lines, 1, (CHOOSE k \in long : \A j \in long : k <= j) - 1)

\* the content and scanner.Err()
readFileContent(f) ==
    LET lines == Split(f.raw, Byte("\n"))
    IN [content |-> ReadLines(Scanned(lines), 1),
        err |-> IF f.fault = "read" \/ f.isDir THEN "read"
                ELSE IF Scanned(lines) # lines THEN "too long"
                ELSE "nil"]

TierFileName == Ascii(<<"0", "0", "_", "t", "i", "e", "r", ".", "t", "x", "t">>)

\* the faulty variant that skips a file named tier.txt
IsTierTxt(filename) == filename = Ascii(<<"t", "i", "e", "r", ".", "t", "x", "t">>)

\* line 50
IsTierFile(filename) == filename = TierFileName

\* the faulty variant that keeps the entry a key already has
MergeKeepOld(technologies_, techs) ==
    [key \in DOMAIN technologies_ \cup DOMAIN techs |->
        IF key \in DOMAIN technologies_ THEN technologies_[key] ELSE techs[key]]

\* lines 66-68: p.technologies[key] = tech for every parsed key
Merge(technologies_, techs) ==
    [key \in DOMAIN technologies_ \cup DOMAIN techs |->
        IF key \in DOMAIN techs THEN techs[key] ELSE technologies_[key]]

\* the faulty variant that merges what was read before the error
MergeContentDespiteError(technologies_, filename, read) ==
    [technologies |-> Merge(technologies_, parseContent(read.content, filename)),
     err |-> read.err]

\* lines 61-70: the error of readFileContent returned, or the parsed
\* technologies merged into the map
MergeContent(technologies_, filename, read) ==
    IF read.err # "nil" THEN [technologies |-> technologies_, err |-> read.err]
    ELSE [technologies |-> Merge(technologies_, parseContent(read.content, filename)),
          err |-> "nil"]

\* ParseFile on file f with p.technologies = technologies_: the map
\* afterwards and the error returned
ParseFile(technologies_, f) ==
    IF IsTierFile(f.name) THEN [technologies |-> technologies_, err |-> "nil"]
    ELSE IF f.fault = "open" THEN [technologies |-> technologies_, err |-> "open"]
    ELSE MergeContent(technologies_, f.name, readFileContent(f))

\* strings.HasSuffix for a suffix of any length
HasSuffixText(s, suffix) ==
    Len(s) >= Len(suffix) /\ SubSeq(s, Len(s) - Len(suffix) + 1, Len(s)) = suffix

\* lines 36-38: the error of ParseFile costs a warning and is dropped
Warned(r) ==
    [technologies |-> r.technologies, warned |-> IF r.err # "nil" THEN 1 ELSE 0,
     err |-> "nil", parsed |-> r.err]

\* the error of ParseFile returned to the walk
Propagated(r) ==
    [technologies |-> r.technologies, warned |-> 0, err |-> r.err, parsed |-> r.err]

\* the faulty variant of the callback that returns the error of ParseFile
WalkFnPropagate(technologies_, f) ==
    IF f.fault = "walk"
    THEN [technologies |-> technologies_, warned |-> 0, err |-> "walk", parsed |-> "none"]
    ELSE IF ~f.isDir /\ HasSuffixText(f.name, Ascii(<<".", "t", "x", "t">>))
    THEN Propagated(ParseFile(technologies_, f))
    ELSE [technologies |-> technologies_, warned |-> 0, err |-> "nil", parsed |-> "none"]

\* lines 29-41: the callback filepath.Walk calls for every entry; parsed is
\* what ParseFile returned when it was called
WalkFn(technologies_, f) ==
    IF f.fault = "walk"
    THEN [technologies |-> technologies_, warned |-> 0, err |-> "walk", parsed |-> "none"]
    ELSE IF ~f.isDir /\ HasSuffixText(f.name, Ascii(<<".", "t", "x", "t">>))
    THEN Warned(ParseFile(technologies_, f))
    ELSE [technologies |-> technologies_, warned |-> 0, err |-> "nil", parsed |-> "none"]

\* the technology keys of the files
TechA == Ascii(<<"t", "e", "c", "h", "_", "a">>)
TechB == Ascii(<<"t", "e", "c", "h", "_", "b">>)
TechTest == Ascii(<<"t", "e", "c", "h", "_", "t", "e", "s", "t">>)

\* the text TestReadFileContent writes to its file
RawA == Ascii(<<"#", " ", "C", "o", "m", "m", "e", "n", "t", " ", "l", "i", "n", "e", "\n", "t", "e", "c", "h", "_", "t", "e", "s", "t", " ", "=", " ", "{", "\n", "\t", "c", "o", "s", "t", " ", "=", " ", "1", "0", "0", "0", " ", "#", " ", "i", "n", "l", "i", "n", "e", " ", "c", "o", "m", "m", "e", "n", "t", "\n", "\t", "a", "r", "e", "a", " ", "=", " ", "p", "h", "y", "s", "i", "c", "s", "\n", "}", "\n">>)

\* a file that defines tech_test again and tech_b; its cost line stands
\* between U+1680 and U+3000, white space of three bytes each
RawB == Ascii(<<"t", "e", "c", "h", "_", "t", "e", "s", "t", " ", "=", " ", "{", "\n", "\t", "t", "i", "e", "r", " ", "=", " ", "2", "\n", "}", "\n", "\n", "t", "e", "c", "h", "_", "b", " ", "=", " ", "{", "\n">>)
        \o <<225, 154, 128>> \o Ascii(<<"c", "o", "s", "t", " ", "=", " ", "5">>) \o <<227, 128, 128>>
        \o Ascii(<<"\n", "\t", "p", "r", "e", "r", "e", "q", "u", "i", "s", "i", "t", "e", "s", " ", "=", " ", "{", " ", "\"", "t", "e", "c", "h", "_", "t", "e", "s", "t", "\"", " ", "}", "\n", "}", "\n">>)

\* the text TestSkipTierFile writes to 00_tier.txt
RawTier == Ascii(<<"\n", "t", "i", "e", "r", "_", "0", " ", "=", " ", "{", "\n", "\t", "c", "o", "s", "t", " ", "=", " ", "0", "\n", "\t", "w", "e", "i", "g", "h", "t", " ", "=", " ", "1", "0", "0", "\n", "}", "\n", "t", "i", "e", "r", "_", "1", " ", "=", " ", "{", "\n", "\t", "c", "o", "s", "t", " ", "=", " ", "1", "0", "0", "0", "\n", "\t", "w", "e", "i", "g", "h", "t", " ", "=", " ", "8", "5", "\n", "}", "\n">>)
RawNotes == Ascii(<<"t", "e", "c", "h", "_", "z", " ", "=", " ", "{", "\n", "}", "\n">>)

Files ==
    { File(Ascii(<<"0", "0", "_", "a", ".", "t", "x", "t">>), FALSE, "none", RawA),
      File(Ascii(<<"0", "0", "_", "b", ".", "t", "x", "t">>), FALSE, "none", RawB),
      File(Ascii(<<"0", "0", "_", "a", ".", "t", "x", "t">>), FALSE, "open", RawA),
      File(Ascii(<<"0", "0", "_", "b", ".", "t", "x", "t">>), FALSE, "read", RawB),
      File(TierFileName, FALSE, "none", RawTier),
      File(TierFileName, FALSE, "open", RawA),
      File(Ascii(<<"n", "o", "t", "e", "s", ".", "m", "d">>), FALSE, "none", RawNotes),
      File(Ascii(<<"s", "u", "b">>), TRUE, "none", <<>>),
      File(Ascii(<<"s", "u", "b">>), TRUE, "walk", <<>>) }

\* ParseFile is called on files that exist
Openable == {f \in Files : f.fault # "walk"}

(* ParseFile called on a sequence of files, one call per step *)
FileInit ==
    /\ TreeIdle
    /\ call = None
    /\ ret = None
    /\ ptechs = EmptyMap
    /\ entries \in SeqsUpTo(Openable, MaxFiles)
    /\ cursor = 0
    /\ result = "idle"
    /\ lastFile = None
    /\ warnings = 0

\* the state after ParseFile returned r for file f
AfterParseFile(f, r) ==
    /\ ptechs' = r.technologies
    /\ lastFile' = [type |-> "file", file |-> f, err |-> r.err]

ParseFileCall ==
    /\ cursor < Len(entries)
    /\ AfterParseFile(entries[cursor + 1], ParseFile(ptechs, entries[cursor + 1]))
    /\ cursor' = cursor + 1
    /\ UNCHANGED <<tvars, call, ret, entries, result, warnings>>

FileNext == ParseFileCall

FileSpec == FileInit /\ [][FileNext]_vars

(* ParseDirectory: the walk visits the root and then the entries in order *)
RootDir == File(Ascii(<<"t", "e", "c", "h", "n", "o", "l", "o", "g", "y">>), TRUE, "none", <<>>)
NoDir == File(Ascii(<<"n", "o", "n", "e", "x", "i", "s", "t", "e", "n", "t">>), TRUE, "walk", <<>>)

WalkInit ==
    /\ TreeIdle
    /\ ret = None
    /\ ptechs = EmptyMap
    /\ \/ /\ call = Call("ParseDirectory", <<RootDir.name>>)
          /\ \E fs \in SeqsUpTo(Files, MaxFiles) : entries = <<RootDir>> \o fs
       \/ /\ call = Call("ParseDirectory", <<NoDir.name>>)
          /\ entries = <<NoDir>>
    /\ cursor = 0
    /\ result = "walking"
    /\ lastFile = None
    /\ warnings = 0

\* the state after the callback returned r for entry f
AfterWalkFn(f, r) ==
    /\ ptechs' = r.technologies
    /\ warnings' = warnings + r.warned
    /\ result' = IF r.err # "nil" THEN "error" ELSE "walking"
    /\ lastFile' = IF r.parsed # "none"
                   THEN [type |-> "file", file |-> f, err |-> r.parsed]
                   ELSE lastFile

\* the walk calls the callback on the next entry; an error it returns ends the walk
WalkStep ==
    /\ result = "walking"
    /\ cursor < Len(entries)
    /\ AfterWalkFn(entries[cursor + 1], WalkFn(ptechs, entries[cursor + 1]))
    /\ cursor' = cursor + 1
    /\ UNCHANGED <<tvars, call, ret, entries>>

\* every entry was visited: filepath.Walk and ParseDirectory return nil
WalkReturn ==
    /\ result = "walking"
    /\ cursor = Len(entries)
    /\ result' = "nil"
    /\ UNCHANGED <<tvars, call, ret, ptechs, entries, cursor, lastFile, warnings>>

WalkNext == WalkStep \/ WalkReturn

WalkSpec == WalkInit /\ [][WalkNext]_vars

---------------------------------------------------------------------------
(* Claims about ParseFile and ParseDirectory *)

\* the technologies a file defines: none for a skipped or failing file
Defined(f) ==
    IF f.name = TierFileName \/ f.isDir \/ f.fault # "none" THEN EmptyMap
    ELSE parseContent(readFileContent(f).content, f.name)

\* the calls made so far, by position in entries, whose file defines key
Definers(key) == {i \in 1..cursor : key \in DOMAIN Defined(entries[i])}

LastDefiner(key) == CHOOSE i \in Definers(key) : \A j \in Definers(key) : j <= i

(* C12: after ParseFile was called on any sequence of files, the map holds  *)
(* exactly the keys some file of the sequence defines, each with the whole  *)
(* Technology the last file that defines it gave it, and every stored       *)
(* Technology has a Key that is not empty and is its key in the map.        *)
C12_LastWriteWins ==
    /\ DOMAIN ptechs = UNION {DOMAIN Defined(entries[i]) : i \in 1..cursor}
    /\ \A key \in DOMAIN ptechs :
          /\ ptechs[key] = Defined(entries[LastDefiner(key)])[key]
          /\ ptechs[key].Key = key
          /\ key # <<>>

\* 00_b.txt, then 00_a.txt: tech_b of the earlier file is kept, tech_test is
\* the one of the later file and the tier the earlier file gave it is gone
C12_Witness ==
    /\ cursor = 2
    /\ entries[1] = File(Ascii(<<"0", "0", "_", "b", ".", "t", "x", "t">>), FALSE, "none", RawB)
    /\ entries[2] = File(Ascii(<<"0", "0", "_", "a", ".", "t", "x", "t">>), FALSE, "none", RawA)
    /\ ptechs[TechB].Cost = 5
    /\ ptechs[TechB].SourceFile = Ascii(<<"0", "0", "_", "b", ".", "t", "x", "t">>)
    /\ ptechs[TechTest].Cost = 1000
    /\ ptechs[TechTest].Tier = 0
    /\ ptechs[TechTest].Area = Physics
    /\ ptechs[TechTest].SourceFile = Ascii(<<"0", "0", "_", "a", ".", "t", "x", "t">>)

(* C13: a call of ParseFile on a file whose base name is 00_tier.txt        *)
(* returns nil and leaves the technology map as it was, whatever the file   *)
(* holds, readable or not, and whatever was parsed before.                  *)
C13_TierFileSkipped ==
    [][(cursor' = cursor + 1 /\ entries[cursor'].name = TierFileName)
          => (ptechs' = ptechs /\ lastFile'.err = "nil")]_vars

\* the tier file that cannot be opened, after a file that defined technologies
C13_Witness ==
    /\ lastFile # None
    /\ lastFile.file = File(TierFileName, FALSE, "open", RawA)
    /\ lastFile.err = "nil"
    /\ TechTest \in DOMAIN ptechs

\* the .txt files visited so far, and those of them ParseFile failed on
TxtVisited ==
    {i \in 1..cursor : ~entries[i].isDir /\ entries[i].fault # "walk"
                          /\ HasSuffixText(entries[i].name, Ascii(<<".", "t", "x", "t">>))}

TxtFailed ==
    {i \in TxtVisited : entries[i].name # TierFileName /\ entries[i].fault # "none"}

(* C14: ParseDirectory returns an error exactly when the walk itself fails, *)
(* as for a directory that does not exist; a .txt file ParseFile fails on   *)
(* costs one warning each, the walk visits every other entry and returns    *)
(* nil, and the technologies of the other files are in the map.             *)
C14_OneFileNeverFails ==
    /\ result = "error" <=> \E i \in 1..cursor : entries[i].fault = "walk"
    /\ call.args[1] = NoDir.name /\ cursor > 0 => result = "error"
    /\ result = "nil" =>
          /\ cursor = Len(entries)
          /\ warnings = Cardinality(TxtFailed)
          /\ \A i \in TxtVisited \ TxtFailed : \A key \in DOMAIN Defined(entries[i]) :
                /\ key \in DOMAIN ptechs
                /\ ptechs[key] = Defined(entries[LastDefiner(key)])[key]

\* 00_a.txt cannot be opened: one warning, nil, and the technologies of
\* 00_b.txt are there
C14_Witness ==
    /\ result = "nil"
    /\ warnings = 1
    /\ Len(entries) = 3
    /\ entries[2] = File(Ascii(<<"0", "0", "_", "a", ".", "t", "x", "t">>), FALSE, "open", RawA)
    /\ entries[3] = File(Ascii(<<"0", "0", "_", "b", ".", "t", "x", "t">>), FALSE, "none", RawB)
    /\ DOMAIN ptechs = {TechTest, TechB}
    /\ ptechs[TechTest].Tier = 2

---------------------------------------------------------------------------
(* From a technology file to the tree (main.go 81-133): the file is        *)
(* parsed; with no technology the program exits, otherwise the parser's    *)
(* map is handed to NewTechTree, and the tree is built.  The               *)
(* parser holds texts as byte sequences and the tree model holds the       *)
(* keys as strings; GoString names the string a key spells.                *)

TechC == Ascii(<<"t", "e", "c", "h", "_", "c">>)

GoString(s) ==
    CASE s = <<>> -> ""
      [] s = TechA -> "tech_a"
      [] s = TechB -> "tech_b"
      [] s = TechC -> "tech_c"

\* the fields of a parsed Technology the tree reads
TreeTechnology(t) ==
    Technology(GoString(t.Key), t.Area, t.Tier, t.Category,
               [i \in DOMAIN t.Prerequisites |-> GoString(t.Prerequisites[i])])

\* parser.GetTechnologies() as the argument of NewTechTree
TreeInput(techs) ==
    [name \in {GoString(key) : key \in DOMAIN techs} |->
        TreeTechnology(techs[CHOOSE key \in DOMAIN techs : GoString(key) = name])]

\* technology blocks written on one line and written one entry per line
OneLineA == Ascii(<<"t", "e", "c", "h", "_", "a", " ", "=", " ", "{", " ", "c", "o", "s", "t", " ", "=", " ", "1", "0", "0", " ", "p", "r", "e", "r", "e", "q", "u", "i", "s", "i", "t", "e", "s", " ", "=", " ", "{", " ", "\"", "t", "e", "c", "h", "_", "b", "\"", " ", "}", " ", "i", "s", "_", "r", "a", "r", "e", " ", "=", " ", "y", "e", "s", " ", "}", "\n">>)
OneLineB == Ascii(<<"t", "e", "c", "h", "_", "b", " ", "=", " ", "{", " ", "c", "o", "s", "t", " ", "=", " ", "0", " ", "}", "\n">>)
LinesA == Ascii(<<"t", "e", "c", "h", "_", "a", " ", "=", " ", "{", "\n", "\t", "c", "o", "s", "t", " ", "=", " ", "1", "0", "0", "\n", "\t", "p", "r", "e", "r", "e", "q", "u", "i", "s", "i", "t", "e", "s", " ", "=", " ", "{", " ", "\"", "t", "e", "c", "h", "_", "b", "\"", " ", "}", "\n", "\t", "i", "s", "_", "r", "a", "r", "e", " ", "=", " ", "y", "e", "s", "\n", "}", "\n">>)
LinesB == Ascii(<<"t", "e", "c", "h", "_", "b", " ", "=", " ", "{", "\n", "\t", "c", "o", "s", "t", " ", "=", " ", "0", "\n", "}", "\n">>)
LinesC == Ascii(<<"t", "e", "c", "h", "_", "c", " ", "=", " ", "{", "\n", "\t", "a", "r", "e", "a", " ", "=", " ", "p", "h", "y", "s", "i", "c", "s", "\n", "\t", "p", "r", "e", "r", "e", "q", "u", "i", "s", "i", "t", "e", "s", " ", "=", " ", "{", " ", "\"", "t", "e", "c", "h", "_", "a", "\"", " ", "\"", "t", "e", "c", "h", "_", "b", "\"", " ", "}", "\n", "}", "\n">>)

RoundBlocks == {OneLineA, OneLineB, LinesA, LinesB, LinesC}

MaxBlocks == 3

RoundInit ==
    /\ TreeIdle
    /\ call = None
    /\ ret = None
    /\ ptechs = EmptyMap
    /\ \E bs \in SeqsUpTo(RoundBlocks, MaxBlocks) :
          entries = <<File(FileName, FALSE, "none", Concat(bs))>>
    /\ cursor = 0
    /\ result = "idle"
    /\ lastFile = None
    /\ warnings = 0

\* parser.ParseFile on the file
ParseRound ==
    /\ pc = "idle"
    /\ cursor = 0
    /\ AfterParseFile(entries[1], ParseFile(ptechs, entries[1]))
    /\ cursor' = 1
    /\ UNCHANGED <<tvars, call, ret, entries, result, warnings>>

\* main.go 91-95: the parse gave no technology and the program exits
ExitNoTechnologies ==
    /\ pc = "idle"
    /\ cursor = 1
    /\ result = "idle"
    /\ DOMAIN ptechs = {}
    /\ result' = "exit"
    /\ UNCHANGED <<tvars, call, ret, ptechs, entries, cursor, lastFile, warnings>>

\* main.go 91-133: there are technologies, and tree.NewTechTree is entered
\* with the parser's map
EnterNewTechTree ==
    /\ pc = "idle"
    /\ cursor = 1
    /\ DOMAIN ptechs # {}
    /\ technologies' = TreeInput(ptechs)
    /\ pc' = "create"
    /\ UNCHANGED <<todo, nodes, rootNodes, maxLevel, queue, byArea, byTier,
                   byCategory, finalized, pvars>>

RoundNext == ParseRound \/ ExitNoTechnologies \/ EnterNewTechTree \/ Next

RoundSpec == RoundInit /\ [][RoundNext]_vars

(* C21: for the file that holds the two blocks of the scenario as they are  *)
(* written, tech_a = { cost = 100 prerequisites = { "tech_b" } is_rare =    *)
(* yes } and tech_b = { cost = 0 }, parsing gives the two Technologies      *)
(* tech_a and tech_b, and the tree built from them has tech_b at level 0,   *)
(* tech_a at level 1 and rare, tech_b the one dependency of tech_a and      *)
(* tech_a the one dependent of tech_b.                                      *)
C21_RoundTrip ==
    (Built /\ entries[1].raw = OneLineA \o OneLineB) =>
        /\ DOMAIN ptechs = {TechA, TechB}
        /\ DOMAIN nodes = {"tech_a", "tech_b"}
        /\ nodes["tech_b"].Level = 0
        /\ nodes["tech_a"].Level = 1
        /\ ptechs[TechA].IsRare = TRUE
        /\ nodes["tech_a"].Dependencies = <<"tech_b">>
        /\ nodes["tech_b"].Dependents = <<"tech_a">>

---------------------------------------------------------------------------
(* parseCondition (parser.go 459-503).  A Condition is its Type, Key,      *)
(* Value and Children; Raw is the map it was parsed from and Operator is   *)
(* never set.  Go ranges over a map in an order of its choosing: order is  *)
(* that order, a sequence of the keys of the map ranged over.              *)

And == Ascii(<<"A", "N", "D">>)
Or == Ascii(<<"O", "R">>)
Not == Ascii(<<"N", "O", "T">>)

\* the absent Value of a Condition (nil)
Nil == [type |-> "nil"]

Condition(type, key, value, children) ==
    [Type |-> type, Key |-> key, Value |-> value, Children |-> children]

\* lines 469-473: the child made of one entry
Leaf(key, value) == Condition(<<>>, key, value, <<>>)

HoldsMap(data, key) == key \in DOMAIN data /\ data[key].type = "map"

\* the faulty variant that looks at OR before AND
CombinatorOrFirst(data) ==
    IF HoldsMap(data, Or) THEN Or
    ELSE IF HoldsMap(data, And) THEN And
    ELSE IF HoldsMap(data, Not) THEN Not
    ELSE <<>>

\* lines 466, 475, 484: the first of AND, OR, NOT that holds a nested map,
\* the empty text when none does
Combinator(data) ==
    IF HoldsMap(data, And) THEN And
    ELSE IF HoldsMap(data, Or) THEN Or
    ELSE IF HoldsMap(data, Not) THEN Not
    ELSE <<>>

\* the map the loop ranges over: the nested map of the combinator, or data
Ranged(data) ==
    IF Combinator(data) # <<>> THEN data[Combinator(data)].val ELSE data

\* the orders in which a map with the key set S can be ranged over
Orders(S) ==
    {o \in [1..Cardinality(S) -> S] : \A i, j \in 1..Cardinality(S) : o[i] = o[j] => i = j}

parseCondition(data, order) ==
    IF Combinator(data) # <<>>
    THEN Condition(Combinator(data), <<>>, Nil,
                   [i \in DOMAIN order |-> Leaf(order[i], Ranged(data)[order[i]])])
    ELSE IF Len(order) > 0
    THEN Condition(<<>>, order[1], data[order[1]], <<>>)
    ELSE Condition(<<>>, <<>>, Nil, <<>>)

\* the keys and values of the generated condition maps
HasTechnology == Ascii(<<"h", "a", "s", "_", "t", "e", "c", "h", "n", "o", "l", "o", "g", "y">>)
IsGestalt == Ascii(<<"i", "s", "_", "g", "e", "s", "t", "a", "l", "t">>)
TechX == Ascii(<<"t", "e", "c", "h", "_", "x">>)

CondKeys == {And, Or, Not, HasTechnology, IsGestalt}

CondValues ==
    { MapValue(HasTechnology :> StringValue(TechX)),
      MapValue(HasTechnology :> StringValue(TechX) @@ IsGestalt :> BoolValue(TRUE)),
      StringValue(TechX),
      BoolValue(TRUE),
      ArrayValue(<<StringValue(TechX)>>) }

MaxCondEntries == 3

\* the maps with at least one and at most n entries
CondMaps(n) ==
    UNION {[K -> CondValues] : K \in {S \in SUBSET CondKeys : Cardinality(S) \in 1..n}}

CondInit ==
    /\ TreeIdle
    /\ FilesIdle
    /\ call \in {Call("parseCondition", <<data>>) : data \in CondMaps(MaxCondEntries)}
    /\ ret = None

ParseConditionCall ==
    /\ Pending("parseCondition")
    /\ \E order \in Orders(DOMAIN Ranged(call.args[1])) :
          ret' = parseCondition(call.args[1], order)
    /\ UNCHANGED <<call, tvars, fvars>>

CondNext == ParseConditionCall

CondSpec == CondInit /\ [][CondNext]_vars

\* the combinators in the order of their priority
Priority == <<And, Or, Not>>

(* C22: of AND, OR, NOT, in that order of priority, the first whose value   *)
(* is a nested map decides: the Type is that key and the Children are one   *)
(* leaf per entry of that nested map and nothing else, a key of higher      *)
(* priority that holds no map being passed over and the other combinators   *)
(* not expanded; when none holds a nested map the result has no children    *)
(* and its Key and Value are one entry of the mapping.                      *)
C22_ParseCondition ==
    Returned("parseCondition") =>
        LET data == call.args[1]
            found == {i \in 1..3 : Priority[i] \in DOMAIN data /\ data[Priority[i]].type = "map"}
        IN IF found # {}
           THEN LET first == Priority[CHOOSE i \in found : \A j \in found : i <= j]
                    nested == data[first].val
                IN /\ ret.Type = first
                   /\ Len(ret.Children) = Cardinality(DOMAIN nested)
                   /\ \A key \in DOMAIN nested : \E i \in DOMAIN ret.Children :
                         ret.Children[i] = Leaf(key, nested[key])
           ELSE /\ ret.Children = <<>>
                /\ ret.Type = <<>>
                /\ ret.Key \in DOMAIN data
                /\ ret.Value = data[ret.Key]

\* AND holds a text and is passed over, OR holds the map of two entries and
\* decides, the map under NOT is not expanded
C22_Witness ==
    /\ Returned("parseCondition")
    /\ call.args[1] = (And :> StringValue(TechX))
                      @@ (Or :> MapValue(HasTechnology :> StringValue(TechX)
                                         @@ IsGestalt :> BoolValue(TRUE)))
                      @@ (Not :> MapValue(HasTechnology :> StringValue(TechX)))
    /\ ret.Type = Or
    /\ ret.Children = <<Leaf(IsGestalt, BoolValue(TRUE)), Leaf(HasTechnology, StringValue(TechX))>>

---------------------------------------------------------------------------
(* parseTechnologyBlock's Potential (parser.go 251-254): the condition     *)
(* parsed from the map under "potential", in one of the orders in which    *)
(* Go may range over that map.                                             *)

PotentialKey == Ascii(<<"p", "o", "t", "e", "n", "t", "i", "a", "l">>)

Potential(data, order) ==
    IF HoldsMap(data, PotentialKey)
    THEN parseCondition(data[PotentialKey].val, order)
    ELSE Nil

PotentialOrders(data) ==
    IF HoldsMap(data, PotentialKey)
    THEN Orders(DOMAIN Ranged(data[PotentialKey].val))
    ELSE {<<>>}

\* the ways the generated blocks write their potential
PotOneLine == Ascii(<<"\t", "p", "o", "t", "e", "n", "t", "i", "a", "l", " ", "=", " ", "{", " ", "A", "N", "D", " ", "=", " ", "{", " ", "h", "a", "s", "_", "t", "e", "c", "h", "n", "o", "l", "o", "g", "y", " ", "=", " ", "\"", "t", "e", "c", "h", "_", "x", "\"", " ", "i", "s", "_", "g", "e", "s", "t", "a", "l", "t", " ", "=", " ", "y", "e", "s", " ", "}", " ", "}", "\n">>)
PotLines == Ascii(<<"\t", "p", "o", "t", "e", "n", "t", "i", "a", "l", " ", "=", " ", "{", "\n", "\t", "\t", "A", "N", "D", " ", "=", " ", "{", "\n", "\t", "\t", "\t", "h", "a", "s", "_", "t", "e", "c", "h", "n", "o", "l", "o", "g", "y", " ", "=", " ", "\"", "t", "e", "c", "h", "_", "x", "\"", "\n", "\t", "\t", "\t", "i", "s", "_", "g", "e", "s", "t", "a", "l", "t", " ", "=", " ", "y", "e", "s", "\n", "\t", "\t", "}", "\n", "\t", "}", "\n">>)
PotOrLines == Ascii(<<"\t", "p", "o", "t", "e", "n", "t", "i", "a", "l", " ", "=", " ", "{", "\n", "\t", "\t", "O", "R", " ", "=", " ", "{", "\n", "\t", "\t", "\t", "h", "a", "s", "_", "t", "e", "c", "h", "n", "o", "l", "o", "g", "y", " ", "=", " ", "\"", "t", "e", "c", "h", "_", "x", "\"", "\n", "\t", "\t", "\t", "i", "s", "_", "g", "e", "s", "t", "a", "l", "t", " ", "=", " ", "y", "e", "s", "\n", "\t", "\t", "}", "\n", "\t", "}", "\n">>)
PotNotLines == Ascii(<<"\t", "p", "o", "t", "e", "n", "t", "i", "a", "l", " ", "=", " ", "{", "\n", "\t", "\t", "N", "O", "T", " ", "=", " ", "{", "\n", "\t", "\t", "\t", "i", "s", "_", "g", "e", "s", "t", "a", "l", "t", " ", "=", " ", "y", "e", "s", "\n", "\t", "\t", "}", "\n", "\t", "}", "\n">>)
PotLeafLines == Ascii(<<"\t", "p", "o", "t", "e", "n", "t", "i", "a", "l", " ", "=", " ", "{", "\n", "\t", "\t", "i", "s", "_", "g", "e", "s", "t", "a", "l", "t", " ", "=", " ", "y", "e", "s", "\n", "\t", "}", "\n">>)
PotArray == Ascii(<<"\t", "p", "o", "t", "e", "n", "t", "i", "a", "l", " ", "=", " ", "{", " ", "\"", "t", "e", "c", "h", "_", "x", "\"", " ", "}", "\n">>)

Potentials == {PotOneLine, PotLines, PotOrLines, PotNotLines, PotLeafLines, PotArray, <<>>}

\* the lines written before and after the potential
AroundLines == {Ascii(<<"\t", "c", "o", "s", "t", " ", "=", " ", "1", "0", "0", "\n">>), Ascii(<<"\t", "i", "s", "_", "r", "a", "r", "e", " ", "=", " ", "y", "e", "s", "\n">>), Ascii(<<"\t", "a", "r", "e", "a", " ", "=", " ", "p", "h", "y", "s", "i", "c", "s", "\n">>)}

MaxAround == 1

PotentialInit ==
    /\ TreeIdle
    /\ FilesIdle
    /\ \E before, after \in SeqsUpTo(AroundLines, MaxAround) : \E p \in Potentials :
          call = Call("parseTechnologyBlock", <<TechA, Concat(before) \o p \o Concat(after)>>)
    /\ ret = None

AfterParseBlock(key, data) ==
    \E order \in PotentialOrders(data) :
        ret' = [Technology |-> NewTechnology(key, data), Potential |-> Potential(data, order)]

ParseTechnologyBlockCall ==
    /\ Pending("parseTechnologyBlock")
    /\ AfterParseBlock(call.args[1], parseBlock(call.args[2]).val)
    /\ UNCHANGED <<call, tvars, fvars>>

PotentialNext == ParseTechnologyBlockCall

PotentialSpec == PotentialInit /\ [][PotentialNext]_vars

\* the text of the call contains the text p
ContainsText(s, p) ==
    \E i \in 0..(Len(s) - Len(p)) : SubSeq(s, i + 1, i + Len(p)) = p

(* C23: a technology block containing the line                              *)
(* potential = { AND = { has_technology = "tech_x" is_gestalt = yes } }     *)
(* is parsed into a Technology whose Potential has the Type AND and exactly *)
(* two leaf children, has_technology = "tech_x" and is_gestalt = true.      *)
C23_ConditionScenario ==
    (Returned("parseTechnologyBlock") /\ ContainsText(call.args[2], PotOneLine)) =>
        /\ ret.Potential # Nil
        /\ ret.Potential.Type = And
        /\ Len(ret.Potential.Children) = 2
        /\ \E i, j \in 1..2 :
              /\ ret.Potential.Children[i] = Leaf(HasTechnology, StringValue(TechX))
              /\ ret.Potential.Children[j] = Leaf(IsGestalt, BoolValue(TRUE))

---------------------------------------------------------------------------
(* getBool (parser.go 418-428) over maps of up to two entries whose values *)
(* are of every type the parser produces.                                  *)

Flag == Ascii(<<"f", "l", "a", "g">>)
Other == Ascii(<<"o", "t", "h", "e", "r">>)
Missing == Ascii(<<"m", "i", "s", "s", "i", "n", "g">>)

FlagValues ==
    { BoolValue(TRUE), BoolValue(FALSE),
      StringValue(Yes), StringValue(True), StringValue(No), StringValue(False),
      StringValue(Ascii(<<"Y", "E", "S">>)), StringValue(<<>>),
      IntValue(42), IntValue(1), FloatValue(FALSE, Ascii(<<"1", "5">>), -1),
      ArrayValue(<<StringValue(Yes)>>), MapValue(Flag :> BoolValue(TRUE)) }

FlagMaps == UNION {[K -> FlagValues] : K \in SUBSET {Flag, Other}}

GetBoolInit ==
    /\ TreeIdle
    /\ FilesIdle
    /\ \E data \in FlagMaps : \E key \in {Flag, Other, Missing} :
          call = Call("getBool", <<data, key>>)
    /\ ret = None

GetBoolCall ==
    /\ Pending("getBool")
    /\ ret' = Returns("bool", getBool(call.args[1], call.args[2]))
    /\ UNCHANGED <<call, tvars, fvars>>

GetBoolNext == GetBoolCall

GetBoolSpec == GetBoolInit /\ [][GetBoolNext]_vars

(* C24: getBool returns the stored value when it is a boolean, true when    *)
(* the stored value is the text "yes" or "true", and false in every other   *)
(* case: the key missing, any other text, a number, an array or a map.      *)
C24_GetBool ==
    Returned("getBool") =>
        LET data == call.args[1]
            key == call.args[2]
        IN /\ ret.val \in BOOLEAN
           /\ (key \in DOMAIN data /\ data[key].type = "bool") => ret.val = data[key].val
           /\ (key \in DOMAIN data /\ data[key] \in {StringValue(Yes), StringValue(True)})
                  => ret.val = TRUE
           /\ (key \notin DOMAIN data) => ret.val = FALSE
           /\ (key \in DOMAIN data /\ data[key].type = "string" /\ data[key].val \notin {Yes, True})
                  => ret.val = FALSE
           /\ (key \in DOMAIN data /\ data[key].type \in {"int", "float", "array", "map"})
                  => ret.val = FALSE

\* the text "true" under the key asked for, beside a false flag under another
C24_Witness ==
    /\ Returned("getBool")
    /\ call.args[2] = Flag
    /\ call.args[1] = (Flag :> StringValue(True)) @@ (Other :> BoolValue(FALSE))
    /\ ret.val = TRUE

---------------------------------------------------------------------------
(* The re-queue of calculateLevels (part_000 475-501) *)

\* the next iteration pops a node not yet visited that has a dependency,
\* other than itself, not yet visited
PopsBlocked ==
    /\ pc = "levels"
    /\ Len(queue) > 0
    /\ ~nodes[Head(queue)].Visited
    /\ \E d \in Range(nodes[Head(queue)].Dependencies) :
          d # Head(queue) /\ ~nodes[d].Visited

(* C25: when calculateLevels pops a node one of whose dependencies is not   *)
(* finalized, the node is appended to the back of the queue and is itself   *)
(* left not finalized: its Visited flag is false after the step and its     *)
(* Level is not assigned, so that a later pop evaluates it again.           *)
C25_RequeueUnfinalized ==
    [][PopsBlocked =>
          /\ queue' = Append(Tail(queue), Head(queue))
          /\ nodes'[Head(queue)].Level = nodes[Head(queue)].Level
          /\ ~nodes'[Head(queue)].Visited]_vars

---------------------------------------------------------------------------
(* C26: after NewTechTree on an acyclic technology set the levels form a    *)
(* topological order: every node has a level strictly greater than the      *)
(* level of each of its dependencies.                                       *)
C26_TopologicalLevels ==
    (Built /\ Acyclic) =>
        \A n \in DOMAIN nodes : \A d \in Range(nodes[n].Dependencies) :
            nodes[n].Level > nodes[d].Level

---------------------------------------------------------------------------
(* Two runs of NewTechTree on the same technology set: the levels of the    *)
(* first tree are kept while the second tree is built, with map orders of   *)
(* its own.                                                                 *)

\* what the first tree answers: the Level of every node and GetMaxLevel()
Levels == [Level |-> [n \in DOMAIN nodes |-> nodes[n].Level], MaxLevel |-> GetMaxLevel]

NewTechTreeAgain ==
    /\ pc = "done"
    /\ ret = None
    /\ ret' = Returns("tree", Levels)
    /\ pc' = "create"
    /\ todo' = {}
    /\ nodes' = EmptyMap
    /\ rootNodes' = <<>>
    /\ maxLevel' = 0
    /\ queue' = <<>>
    /\ byArea' = EmptyMap
    /\ byTier' = EmptyMap
    /\ byCategory' = EmptyMap
    /\ finalized' = {}
    /\ UNCHANGED <<technologies, call, fvars>>

TwiceNext == NewTechTreeAgain \/ Next

TwiceSpec == Init /\ [][TwiceNext]_vars

(* C27: two runs of NewTechTree on the same technology set that differ only *)
(* in the map iteration order assign the same Level to every node and the   *)
(* same maximum level.                                                      *)
C27_Deterministic ==
    (Built /\ ret # None) => Levels = ret.val

---------------------------------------------------------------------------
(* C28: for every input of NewTechTree, acyclic or cyclic, with missing,    *)
(* duplicate or self-referencing prerequisites, after it returns every node *)
(* has 0 <= Level <= GetMaxLevel(), and GetMaxLevel() is at most            *)
(* max(0, number of nodes - 1).                                             *)
C28_LevelBounds ==
    Built =>
        /\ \A n \in DOMAIN nodes : 0 <= nodes[n].Level /\ nodes[n].Level <= GetMaxLevel
        /\ GetMaxLevel <= MaxOf({0, Cardinality(DOMAIN nodes) - 1})


\* a self-reference and a duplicate on a chain of three: the last node
\* reaches the level 2, the number of nodes less one
C28_Witness ==
    /\ Built
    /\ DOMAIN technologies = {"tech_a", "tech_b", "tech_c"}
    /\ technologies["tech_a"].Prerequisites = <<>>
    /\ technologies["tech_b"].Prerequisites = <<"tech_a", "tech_b">>
    /\ technologies["tech_c"].Prerequisites = <<"tech_b", "tech_b">>
    /\ nodes["tech_c"].Level = 2
    /\ GetMaxLevel = 2

---------------------------------------------------------------------------
(* parseBlock (parser.go 260-303) one loop iteration at a time.  The calls  *)
(* under way are the frames of entries, the innermost last: the content a   *)
(* call was given, its cursor i, its result so far and the key that waits   *)
(* for the map of the call it made.  The variable cursor counts the loop    *)
(* iterations and returns since the outermost call was entered.             *)

Frame(content) == [content |-> content, i |-> 0, result |-> EmptyMap, key |-> <<>>]

\* lines 284-292: the block line at the cursor; an array is stored at once,
\* for a map the call of parseBlock on the body is entered
IterateBlock(f, key, b) ==
    IF isArray(b.block)
    THEN <<[f EXCEPT !.i = b.next, !.result = Put(f.result, key, parseArray(b.block))]>>
    ELSE <<[f EXCEPT !.i = b.next, !.key = key], Frame(b.block)>>

\* the faulty variant that keeps the cursor on a scalar line
IterateEntryStuck(f, lines, key, valuePart) ==
    IF HasPrefix(valuePart, Byte("{"))
    THEN IterateBlock(f, key, extractBlock(lines, f.i))
    ELSE <<[f EXCEPT !.result = Put(f.result, key, parseValue(valuePart))]>>

\* lines 280-298
IterateEntry(f, lines, key, valuePart) ==
    IF HasPrefix(valuePart, Byte("{"))
    THEN IterateBlock(f, key, extractBlock(lines, f.i))
    ELSE <<[f EXCEPT !.i = f.i + 1, !.result = Put(f.result, key, parseValue(valuePart))]>>

\* lines 267-278
IterateLine(f, lines, line, parts) ==
    IF line = <<>> \/ line = Ascii(<<"}">>) THEN <<[f EXCEPT !.i = f.i + 1]>>
    ELSE IF Len(parts) # 2 THEN <<[f EXCEPT !.i = f.i + 1]>>
    ELSE IterateEntry(f, lines, TrimSpace(parts[1]), TrimSpace(parts[2]))

\* one iteration of `for i < len(lines)` in the frame f
Iterate(f, lines) ==
    IterateLine(f, lines, TrimSpace(lines[f.i + 1]), SplitN2(TrimSpace(lines[f.i + 1]), Byte("=")))

Top(stack) == stack[Len(stack)]

Below(stack) == SubSeq(stack, 1, Len(stack) - 1)

FrameLines(f) == Split(f.content, Byte("\n"))

StepInit ==
    /\ TreeIdle
    /\ FilesIdle
    /\ call = None
    /\ ret = None

\* parseBlock is called with some content and entered: lines 261-264
ParseBlockEnter ==
    /\ call = None
    /\ \E lines \in SeqsUpTo(BlockLines, MaxLines) :
          /\ call' = Call("parseBlock", <<JoinLines(lines, 0)>>)
          /\ entries' = <<Frame(JoinLines(lines, 0))>>
    /\ UNCHANGED <<ret, tvars, ptechs, cursor, result, lastFile, warnings>>

ParseBlockIteration ==
    /\ Pending("parseBlock")
    /\ entries # <<>>
    /\ Top(entries).i < Len(FrameLines(Top(entries)))
    /\ entries' = Below(entries) \o Iterate(Top(entries), FrameLines(Top(entries)))
    /\ cursor' = cursor + 1
    /\ UNCHANGED <<call, ret, tvars, ptechs, result, lastFile, warnings>>

\* line 302: the loop is over; the map goes to the key that waits for it in
\* the calling frame (line 291), or to the caller of the outermost call
ParseBlockReturn ==
    /\ Pending("parseBlock")
    /\ entries # <<>>
    /\ Top(entries).i >= Len(FrameLines(Top(entries)))
    /\ IF Len(entries) = 1
       THEN /\ ret' = MapValue(Top(entries).result)
            /\ entries' = <<>>
       ELSE /\ ret' = ret
            /\ entries' = [Below(entries) EXCEPT ![Len(entries) - 1].result =
                              Put(@, entries[Len(entries) - 1].key,
                                  MapValue(Top(entries).result))]
    /\ cursor' = cursor + 1
    /\ UNCHANGED <<call, tvars, ptechs, result, lastFile, warnings>>

StepNext == ParseBlockEnter \/ ParseBlockIteration \/ ParseBlockReturn

StepSpec == StepInit /\ [][StepNext]_vars

\* an iteration of the innermost loop is the next step
Iterating ==
    /\ Pending("parseBlock")
    /\ entries # <<>>
    /\ Top(entries).i < Len(FrameLines(Top(entries)))

\* the opening braces of a text
Opens(content) == Cardinality({k \in DOMAIN content : content[k] = Byte("{")})

\* the iteration moved the cursor forward, by one on a line that opens no
\* block and to the index extractBlock resumes at otherwise
CursorProgress ==
    LET n == Len(entries)
        f == entries[n]
        lines == FrameLines(f)
    IN /\ entries'[n].i > f.i
       /\ entries'[n].i <= Len(lines)
       /\ ~OpensBlock(lines[f.i + 1]) => entries'[n].i = f.i + 1
       /\ OpensBlock(lines[f.i + 1]) => entries'[n].i = extractBlock(lines, f.i).next

\* the call the iteration made got a body with fewer opening braces than
\* the content of the calling frame
FewerOpens ==
    LET n == Len(entries)
    IN Len(entries') > n => Opens(entries'[n + 1].content) < Opens(entries[n].content)

\* the call the iteration made got a body shorter than the content of the
\* calling frame
ShorterBody ==
    LET n == Len(entries)
    IN Len(entries') > n => Len(entries'[n + 1].content) < Len(entries[n].content)

\* the steps a call on content takes at most: every call but the first
\* takes an opening brace of its own, a body has at most one line more than
\* the text it is taken from, and a call takes an iteration for every line
\* and one return
StepBound(content) ==
    (Opens(content) + 1)
        * (Len(Split(content, Byte("\n"))) + Opens(content) + 1)

(* C29: parseBlock terminates on every input, unbalanced and truncated      *)
(* braces included: every loop iteration moves the cursor strictly forward, *)
(* by one for blank, lone-brace, no-'=' and scalar lines and to the index   *)
(* extractBlock resumes at, above the cursor and at most the number of      *)
(* lines, for block lines; every recursive call receives a body with fewer  *)
(* opening braces than the text it was extracted from; the number of steps  *)
(* of a call is bounded by the lines and opening braces of its content.     *)
C29_ParseBlockTerminates ==
    [][/\ Iterating => (CursorProgress /\ FewerOpens)
       /\ call' # None => cursor' <= StepBound(call'.args[1])]_vars

(* C29 as it was stated: every recursive call receives a body strictly      *)
(* shorter than the text it was extracted from.                             *)
C29_BodyShorter ==
    [][Iterating => ShorterBody]_vars

\* the truncated text { = { / x = 1 was parsed through two nested calls, the
\* first of them on a body as long as the text: " = {", a newline, "x = 1"
\* and a newline
C29_Witness ==
    /\ Returned("parseBlock")
    /\ call.args[1] = Ascii(<<"{", " ", "=", " ", "{", "\n", "x", " ", "=", " ", "1">>)
    /\ Len(extractBlock(Split(call.args[1], Byte("\n")), 0).block) = Len(call.args[1])
    /\ ret = MapValue(Ascii(<<"{">>) :> MapValue(<<>> :> MapValue(Ascii(<<"x">>) :> IntValue(1))))

---------------------------------------------------------------------------
(* C30: when ParseFile returns an error, because the file cannot be opened  *)
(* or cannot be read, the technology map is exactly what it was before the  *)
(* call.                                                                    *)
C30_ErrorLeavesMap ==
    [][(cursor' = cursor + 1 /\ lastFile'.err # "nil") => ptechs' = ptechs]_vars

\* a file that parsed, then a file with other technologies whose read
\* failed: the map holds what the first file defined and nothing else
C30_Witness ==
    /\ cursor = 2
    /\ entries[1] = File(Ascii(<<"0", "0", "_", "a", ".", "t", "x", "t">>), FALSE, "none", RawA)
    /\ entries[2] = File(Ascii(<<"0", "0", "_", "b", ".", "t", "x", "t">>), FALSE, "read", RawB)
    /\ lastFile.err = "read"
    /\ ptechs # EmptyMap
    /\ ptechs = ParseFile(EmptyMap, entries[1]).technologies

=============================================================================
